---- MODULE Spec2Model ----
(***************************************************************************)
(* A model of S4, the XMMS2 medialib backend: the per-key value index      *)
(* (src/index.c), the source preference (src/sourcepref.c) and the         *)
(* circular write-ahead log (src/lib/log.c).                               *)
(***************************************************************************)
EXTENDS Integers, Sequences, FiniteSets, TLC

(***************************************************************************)
(* Bounds of the model.                                                    *)
(***************************************************************************)
\* the calls of _index_insert stop once the counts held in the index add up to this
MaxTotal == 3
\* a source preference holds at most this many patterns
MaxPrefs == 2
\* the log is handed at most this many transactions (commits, syncs, checkpoints)
MaxTx == 4
\* a log file that is redone holds at most this many records after its start
MaxRecs == 3
\* a fetchspec is given at most this many projections
MaxFetch == 2
\* and at most this many references next to that of its creation
MaxRefs == 2
\* the strings of an encoded record have at most this many characters
MaxStr == 2
\* _log_lock_file is nested at most this deep
MaxUsers == 2

VARIABLES
    index,      \* the s4_index_t under test (index.c:16-20)
    last,       \* the last call made on the index: its arguments and its result
    undo,       \* the (value, relation) pairs inserted and not yet deleted again, newest first
    phase,      \* "insert" while pairs are inserted, "delete" once they are deleted in reverse order
    sp,         \* the s4_sourcepref_t under test (sourcepref.c:5-11): its specs and its table
    spcall,     \* the last s4_sourcepref_get_priority call: its source id and its result
    logfile,    \* the log file: the records it holds, each with its offset and length
    ld,         \* the s4_log_data_t of the running process (log.c:62-71) and the position of its FILE
    store,      \* the relation store of the running process: the ADD and DEL operations applied to it
    snap,       \* the snapshot file: the store written to it and the log counter in its header
    lg,         \* the last call made on the log: its arguments, its result and what it did
    ntx,        \* the number of transactions handed to the log so far
    hashorder,  \* the order in which a GHashTable keyed by relation address iterates the relations
    fetch,      \* the s4_fetchspec_t under test (fetchspec.c:27-30), its source preferences, its calls
    codec,      \* an ADD or DEL operation, the bytes _log_mod wrote for it, what _read_mod read back
    locks,      \* the mutexes of a database: the thread holding each, and where each thread is
    flock,      \* the processes that opened one log file: their log_users and the lock on byte 0
    index_table \* s4->index_table and its lock, and the threads in _index_add and _index_get

indexVars == <<index, last, undo, phase, hashorder>>
auxVars == <<fetch, codec, locks, flock, index_table>>
spVars == <<sp, spcall>>
logVars == <<logfile, ld, store, snap, lg, ntx>>
vars == <<index, last, undo, phase, sp, spcall, logfile, ld, store, snap, lg, ntx,
          hashorder, fetch, codec, locks, flock, index_table>>

(***************************************************************************)
(* Values (s4_val_t): a 32-bit int or a string, a string being the         *)
(* sequence of its bytes.                                                  *)
(***************************************************************************)
IntVal(n) == [isint |-> TRUE, i |-> n, s |-> <<>>]
StrVal(str) == [isint |-> FALSE, i |-> 0, s |-> str]

\* the values the calls draw from: -1, 2, "a", "ab"
Vals == {IntVal(0 - 1), IntVal(2), StrVal(<<97>>), StrVal(<<97, 98>>)}

\* the addresses of the relation records handed to the index as new_data
Refs == {1, 2}
\* an address above every relation record
HeapBase == 3

s4_val_is_int(v) == v.isint

\* strcmp: the difference of the first pair of bytes that differ, the
\* terminating NUL byte included
RECURSIVE strcmp(_, _)
strcmp(s1, s2) ==
    IF s1 = <<>> /\ s2 = <<>> THEN 0
    ELSE IF s1 = <<>> THEN 0 - Head(s2)
    ELSE IF s2 = <<>> THEN Head(s1)
    ELSE IF Head(s1) # Head(s2) THEN Head(s1) - Head(s2)
    ELSE strcmp(Tail(s1), Tail(s2))

\* a comparator that puts the strings before the ints
ValCompStrFirst(v1, v2) ==
    IF v1.isint /\ v2.isint
    THEN (IF v1.i > v2.i THEN 1 ELSE IF v1.i < v2.i THEN 0 - 1 ELSE 0)
    ELSE IF ~v1.isint /\ ~v2.isint THEN strcmp(v1.s, v2.s)
    ELSE IF s4_val_is_int(v1) THEN 1
    ELSE 0 - 1

_val_comp(v1, v2) ==
    IF v1.isint /\ v2.isint
    THEN (IF v1.i > v2.i THEN 1 ELSE IF v1.i < v2.i THEN 0 - 1 ELSE 0)
    ELSE IF ~v1.isint /\ ~v2.isint THEN strcmp(v1.s, v2.s)
    ELSE IF s4_val_is_int(v1) THEN 0 - 1
    ELSE 1

(***************************************************************************)
(* Search predicates (index_function_t).  A predicate is called as         *)
(* func (bucket value, funcdata) and answers < 0, 0 or > 0.  "_val_comp"   *)
(* is the canonical comparator against the value funcdata; "range" is a    *)
(* range filter, 0 on the values between funcdata[1] and funcdata[2].      *)
(***************************************************************************)
RangeFunc(v, fd) ==
    IF _val_comp(v, fd[1]) < 0 THEN 0 - 1
    ELSE IF _val_comp(v, fd[2]) > 0 THEN 1
    ELSE 0

CallFunc(func, v, fd) ==
    IF func = "range" THEN RangeFunc(v, fd) ELSE _val_comp(v, fd)

(***************************************************************************)
(* Memory.  An array is the sequence of its allocated slots; C's element k *)
(* is the sequence's element k + 1.  A slot that was allocated and never   *)
(* written holds UninitOcc (UninitBucket): reading it, or reading past the *)
(* allocation, yields whatever the heap holds there, which the caller      *)
(* passes as the garbage g.                                                *)
(***************************************************************************)
UninitOcc == [data |-> 0, count |-> 0]
NoVal == [isint |-> FALSE, i |-> 0 - 1, s |-> <<>>]
UninitBucket == [val |-> NoVal, size |-> 0, alloc |-> 0, data |-> <<>>]

\* what a read of uninitialised or foreign heap memory can yield for an
\* index_data_t: any relation address or another word, with any count
GarbageOccs == [data : Refs \cup {HeapBase}, count : {0, 1}]

\* index->data[i].data[j], j possibly outside the bucket
ReadOcc(b, j, g) ==
    IF j >= 0 /\ j < b.alloc /\ b.data[j + 1] # UninitOcc THEN b.data[j + 1] ELSE g

\* index->data[i]
Bucket(idx, i) == idx.data[i + 1]

\* the address of the occurrence array of bucket i (malloc, index.c:123): a
\* live heap block, so never the address of a relation record
ArrayAddr(i) == HeapBase + 1 + i

RECURSIVE DataSearchLoop(_, _, _, _)
DataSearchLoop(b, data, lo, hi) ==
    IF hi - lo > 0
    THEN LET m == (hi + lo) \div 2
         IN IF data = b.data[m + 1].data THEN m
            ELSE IF data < b.data[m + 1].data THEN DataSearchLoop(b, data, m + 1, hi)
            ELSE DataSearchLoop(b, data, lo, m)
    ELSE lo

_data_search(b, data) == DataSearchLoop(b, data, 0, b.size)

RECURSIVE BsearchLoop(_, _, _, _, _)
BsearchLoop(idx, func, funcdata, lo, hi) ==
    IF hi - lo > 0
    THEN LET m == (hi + lo) \div 2
             c == CallFunc(func, Bucket(idx, m).val, funcdata)
         IN IF c = 0 THEN m
            ELSE IF c < 0 THEN BsearchLoop(idx, func, funcdata, m + 1, hi)
            ELSE BsearchLoop(idx, func, funcdata, lo, m)
    ELSE lo

\* a binary search that goes to the wrong half
RECURSIVE BsearchWrongHalf(_, _, _, _, _)
BsearchWrongHalf(idx, func, funcdata, lo, hi) ==
    IF hi - lo > 0
    THEN LET m == (hi + lo) \div 2
             c == CallFunc(func, Bucket(idx, m).val, funcdata)
         IN IF c = 0 THEN m
            ELSE IF c > 0 THEN BsearchWrongHalf(idx, func, funcdata, m + 1, hi)
            ELSE BsearchWrongHalf(idx, func, funcdata, lo, m)
    ELSE lo

BsearchMutant(idx, func, funcdata) == BsearchWrongHalf(idx, func, funcdata, 0, idx.size)

_bsearch(idx, func, funcdata) == BsearchLoop(idx, func, funcdata, 0, idx.size)

\* _index_create
_index_create == [size |-> 0, alloc |-> 1, data |-> <<UninitBucket>>]

\* index.c:115-125: make room at i and put an empty bucket for val there
NewBucket(idx, i, val) ==
    LET a == IF idx.size >= idx.alloc THEN idx.alloc * 2 ELSE idx.alloc
        grown == [k \in 1..a |-> IF k <= idx.alloc THEN idx.data[k] ELSE UninitBucket]
        moved == [k \in 1..a |-> IF k - 1 > i /\ k - 1 <= idx.size THEN grown[k - 1] ELSE grown[k]]
        fresh == [val |-> val, size |-> 0, alloc |-> 1, data |-> <<UninitOcc>>]
    IN [size |-> idx.size + 1, alloc |-> a, data |-> [moved EXCEPT ![i + 1] = fresh]]

\* index.c:131-140: make room at j of the bucket and put new_data there with count 1
NewOcc(b, j, new_data) ==
    LET a == IF b.size >= b.alloc THEN b.alloc * 2 ELSE b.alloc
        grown == [k \in 1..a |-> IF k <= b.alloc THEN b.data[k] ELSE UninitOcc]
        moved == [k \in 1..a |-> IF k - 1 > j /\ k - 1 <= b.size THEN grown[k - 1] ELSE grown[k]]
    IN [b EXCEPT !.size = b.size + 1, !.alloc = a,
                 !.data = [moved EXCEPT ![j + 1] = [data |-> new_data, count |-> 1]]]

\* index.c:142: index->data[i].data[j].count++, a write past the allocation
\* landing outside the index
BumpOcc(b, j, g) ==
    IF j < b.alloc
    THEN [b EXCEPT !.data[j + 1] = [data |-> ReadOcc(b, j, g).data,
                                    count |-> ReadOcc(b, j, g).count + 1]]
    ELSE b

_index_insert(idx, val, new_data, g) ==
    LET i == _bsearch(idx, "_val_comp", val)
        idx1 == IF i >= idx.size \/ _val_comp(val, Bucket(idx, i).val) # 0
                THEN NewBucket(idx, i, val)
                ELSE idx
        b == Bucket(idx1, i)
        j == _data_search(b, new_data)
    IN IF j >= idx1.size \/ new_data # ReadOcc(b, j, g).data
       THEN [idx1 EXCEPT !.data[i + 1] = NewOcc(b, j, new_data)]
       ELSE [idx1 EXCEPT !.data[i + 1] = BumpOcc(b, j, g)]

\* memmove (a + dst, a + src, n * sizeof *a) on the array a; a negative n does
\* not move anything here.  Reads outside the allocation yield g, writes
\* outside it land outside the array.
MemMove(a, dst, src, n, g) ==
    [k \in 1..Len(a) |->
        IF k - 1 >= dst /\ k - 1 < dst + n
        THEN (IF src + (k - 1 - dst) < Len(a) THEN a[src + (k - 1 - dst) + 1] ELSE g)
        ELSE a[k]]

\* index.c:160-164: decrement the count of slot j, drop the slot at zero
DropOcc(b, j, g) ==
    LET c == ReadOcc(b, j, g).count - 1
        dec == IF j < b.alloc
               THEN [b EXCEPT !.data[j + 1] = [data |-> ReadOcc(b, j, g).data, count |-> c]]
               ELSE b
    IN IF c <= 0
       THEN [dec EXCEPT !.data = MemMove(dec.data, j, j + 1, b.size - j - 1, g),
                        !.size = b.size - 1]
       ELSE dec

\* index.c:166-170: drop bucket i when it is empty.  The source copies from
\* index->data + i + i.
DropBucket(idx, i) ==
    IF Bucket(idx, i).size <= 0
    THEN [idx EXCEPT !.data = MemMove(idx.data, i, i + i, idx.size - i - 1, UninitBucket),
                     !.size = idx.size - 1]
    ELSE idx

\* an _index_delete that skips the test of the slot _data_search returns
IndexDeleteUnchecked(idx, val, new_data, g) ==
    LET i == _bsearch(idx, "_val_comp", val)
    IN IF i >= idx.size \/ _val_comp(val, Bucket(idx, i).val) # 0
       THEN <<0, idx>>
       ELSE <<1, DropBucket([idx EXCEPT !.data[i + 1] =
                                DropOcc(Bucket(idx, i), _data_search(Bucket(idx, i), new_data), g)], i)>>

\* the result is <<the returned int, the index afterwards>>
_index_delete(idx, val, new_data, g) ==
    LET i == _bsearch(idx, "_val_comp", val)
    IN IF i >= idx.size \/ _val_comp(val, Bucket(idx, i).val) # 0
       THEN <<0, idx>>
       ELSE LET b == Bucket(idx, i)
                j == _data_search(b, new_data)
            IN IF j >= idx.size \/ new_data # ArrayAddr(i)
               THEN <<0, idx>>
               ELSE <<1, DropBucket([idx EXCEPT !.data[i + 1] = DropOcc(b, j, g)], i)>>

\* index.c:193: walk down while the predicate is 0, then step up again
RECURSIVE ScanDown(_, _, _, _)
ScanDown(idx, func, fd, i) ==
    IF i >= 0 /\ CallFunc(func, Bucket(idx, i).val, fd) = 0
    THEN ScanDown(idx, func, fd, i - 1)
    ELSE i + 1

\* index.c:194-198: the relation addresses put into the hash table found
RECURSIVE ScanUp(_, _, _, _)
ScanUp(idx, func, fd, i) ==
    IF i < idx.size /\ CallFunc(func, Bucket(idx, i).val, fd) = 0
    THEN {Bucket(idx, i).data[j].data : j \in 1..Bucket(idx, i).size}
             \cup ScanUp(idx, func, fd, i + 1)
    ELSE {}

\* a search that collects from the bucket the binary search hit, without
\* walking down first
IndexSearchNoScanDown(idx, func, fd) ==
    LET f == IF func = "NULL" THEN "_val_comp" ELSE func
        i == _bsearch(idx, f, fd)
    IN IF i >= idx.size \/ CallFunc(f, Bucket(idx, i).val, fd) # 0
       THEN {}
       ELSE ScanUp(idx, f, fd, i)

\* the keys of the hash table found; the returned GList holds each key once,
\* in the order the table is iterated (IndexSearch draws it)
_index_search(idx, func, fd) ==
    LET f == IF func = "NULL" THEN "_val_comp" ELSE func
        i == _bsearch(idx, f, fd)
    IN IF i >= idx.size \/ CallFunc(f, Bucket(idx, i).val, fd) # 0
       THEN {}
       ELSE ScanUp(idx, f, fd, ScanDown(idx, f, fd, i))

(***************************************************************************)
(* The calls on the index.                                                 *)
(***************************************************************************)
RECURSIVE SumSeq(_)
SumSeq(s) == IF s = <<>> THEN 0 ELSE Head(s) + SumSeq(Tail(s))

\* the counts held in the slots of the index, added up
Weight(idx) ==
    SumSeq([i \in 1..idx.size |->
        SumSeq([k \in 1..idx.data[i].alloc |-> idx.data[i].data[k].count])])

\* index.c:200-203: the keys of the table found, as g_hash_table_iter_next gives them
\* (the order of the table, which follows the addresses of the relations), each
\* put in front of the list by g_list_prepend
HashList(S, order) ==
    LET it == SelectSeq(order, LAMBDA r : r \in S)
    IN  [n \in 1..Len(it) |-> it[Len(it) + 1 - n]]

\* every order of the elements of a set
Orders(S) == {q \in [1..Cardinality(S) -> S] : \A x \in S : \E k \in DOMAIN q : q[k] = x}

\* the predicates and funcdata of the searches: the canonical comparator
\* (func NULL) on a value, a range filter on a range lo < hi
Searches ==
    {<<"NULL", v, v>> : v \in Vals}
        \cup {<<"range", r[1], r[2]>> : r \in {q \in Vals \X Vals : _val_comp(q[1], q[2]) < 0}}

NoCall == [name |-> "create", val |-> NoVal, ref |-> 0, func |-> "NULL", hi |-> NoVal,
           ret |-> 0, found |-> <<>>]

\* no source preference made
NoSp == [specs |-> <<>>, table |-> {}]
NoSpCall == [src |-> 0, ret |-> 0]

SpIdle == sp = NoSp /\ spcall = NoSpCall

\* no log opened
NoLd == [last_checkpoint |-> 0, last_synced |-> 0, last_logpoint |-> 0, next_logpoint |-> 0,
         fpos |-> 0]
NoSnap == [store |-> <<>>, checkpoint |-> 0]
NoLogCall == [name |-> "none", ret |-> 0, est |-> 0, bytes |-> 0, clean |-> <<>>,
              base |-> <<>>, trace |-> <<>>, lost |-> FALSE, sync |-> FALSE]

LogIdle ==
    /\ logfile = {} /\ ld = NoLd /\ store = <<>> /\ snap = NoSnap /\ lg = NoLogCall /\ ntx = 0

\* a key argument: NULL or a string
NullKey == [null |-> TRUE, str |-> <<>>]
StrKey(s) == [null |-> FALSE, str |-> s]

\* no fetchspec made
NoFetchCall == [name |-> "none", index |-> 0, key |-> NullKey, pref |-> 0, int |-> 0]
NoFetch == [alive |-> FALSE, ref_count |-> 0, array |-> <<>>, frees |-> 0,
            prefs |-> <<0, 0>>, adds |-> <<>>, nref |-> 0, nunref |-> 0,
            kfree |-> <<>>, stfree |-> 0, call |-> NoFetchCall]
\* no record encoded
NoCodec == [stage |-> "none", op |-> <<>>, bytes |-> <<>>, size |-> 0, cut |-> FALSE, out |-> <<>>]
\* no thread started
NoLocks == [held |-> <<>>, pc |-> <<>>, cached |-> FALSE, log_users |-> 0, byte0 |-> FALSE]
\* no process has the log open
NoFlock == [win32 |-> FALSE, held |-> {}, log_users |-> <<>>, pc |-> <<>>]

\* no index registered, no thread in _index_add or _index_get
NoIndexTable == [table |-> {}, lock |-> {}, pc |-> <<>>, won |-> <<>>]
AuxIdle ==
    /\ fetch = NoFetch /\ codec = NoCodec /\ locks = NoLocks /\ flock = NoFlock
    /\ index_table = NoIndexTable

IndexStart ==
    /\ index = _index_create
    /\ last = NoCall
    /\ undo = <<>>
    /\ phase = "insert"

\* the table iterates the relations by ascending address
HashIdle == hashorder = <<1, 2>>

IndexInit == IndexStart /\ HashIdle /\ SpIdle /\ LogIdle /\ AuxIdle

\* the same index in a process whose GHashTable iterates the relations in any order
IndexOrderInit == IndexStart /\ hashorder \in Orders(Refs) /\ SpIdle /\ LogIdle /\ AuxIdle

\* the heap contents a call can meet: any, when the call reads a slot that
\* was never written or lies past the allocation, and else of no matter
InsertGarbage(idx, val, new_data) ==
    LET i == _bsearch(idx, "_val_comp", val)
        fresh == i >= idx.size \/ _val_comp(val, Bucket(idx, i).val) # 0
        size == IF fresh THEN idx.size + 1 ELSE idx.size
        b == IF fresh THEN [size |-> 0, alloc |-> 1, data |-> <<UninitOcc>>] ELSE Bucket(idx, i)
        j == _data_search(b, new_data)
    IN IF j < size /\ (j >= b.alloc \/ b.data[j + 1] = UninitOcc)
       THEN GarbageOccs
       ELSE {UninitOcc}

DeleteGarbage(idx, val, new_data) ==
    IF _index_delete(idx, val, new_data, UninitOcc)[1] = 0 THEN {UninitOcc} ELSE GarbageOccs

IndexInsert ==
    \E val \in Vals, ref \in Refs : \E g \in InsertGarbage(index, val, ref) :
        /\ Weight(_index_insert(index, val, ref, g)) <= MaxTotal
        /\ index' = _index_insert(index, val, ref, g)
        /\ last' = [NoCall EXCEPT !.name = "insert", !.val = val, !.ref = ref,
                                  !.ret = 1]
        /\ UNCHANGED <<undo, phase, spVars, logVars, hashorder, auxVars>>

IndexDelete ==
    \E val \in Vals, ref \in Refs : \E g \in DeleteGarbage(index, val, ref) :
        /\ index' = _index_delete(index, val, ref, g)[2]
        /\ last' = [NoCall EXCEPT !.name = "delete", !.val = val, !.ref = ref,
                                  !.ret = _index_delete(index, val, ref, g)[1]]
        /\ UNCHANGED <<undo, phase, spVars, logVars, hashorder, auxVars>>

IndexSearch ==
    \E s \in Searches :
        LET fd == IF s[1] = "range" THEN <<s[2], s[3]>> ELSE s[2]
        IN  /\ last' = [NoCall EXCEPT !.name = "search", !.func = s[1], !.val = s[2],
                                      !.hi = s[3],
                                      !.found = HashList(_index_search(index, s[1], fd), hashorder)]
            /\ UNCHANGED <<index, undo, phase, spVars, logVars, hashorder, auxVars>>

IndexNext == IndexInsert \/ IndexDelete \/ IndexSearch

SpecIndex == IndexInit /\ [][IndexNext]_vars

SpecIndexOrder == IndexOrderInit /\ [][IndexNext]_vars

(***************************************************************************)
(* Inserts followed by the matching deletes in reverse order               *)
(* (tests/s4/t_s4.c:210-229, test_add_and_del).                            *)
(***************************************************************************)
AddDelInsert ==
    \E val \in Vals, ref \in Refs : \E g \in InsertGarbage(index, val, ref) :
        /\ phase = "insert"
        /\ Len(undo) < MaxTotal
        /\ Weight(_index_insert(index, val, ref, g)) <= MaxTotal
        /\ index' = _index_insert(index, val, ref, g)
        /\ last' = [NoCall EXCEPT !.name = "insert", !.val = val, !.ref = ref, !.ret = 1]
        /\ undo' = <<<<val, ref>>>> \o undo
        /\ UNCHANGED <<phase, spVars, logVars, hashorder, auxVars>>

AddDelDelete ==
    /\ undo # <<>>
    /\ \E g \in DeleteGarbage(index, Head(undo)[1], Head(undo)[2]) :
        /\ index' = _index_delete(index, Head(undo)[1], Head(undo)[2], g)[2]
        /\ last' = [NoCall EXCEPT !.name = "delete", !.val = Head(undo)[1], !.ref = Head(undo)[2],
                                  !.ret = _index_delete(index, Head(undo)[1], Head(undo)[2], g)[1]]
        /\ undo' = Tail(undo)
        /\ phase' = "delete"
        /\ UNCHANGED <<spVars, logVars, hashorder, auxVars>>

AddDelNext == AddDelInsert \/ AddDelDelete

SpecAddDel == IndexInit /\ [][AddDelNext]_vars

(***************************************************************************)
(* What the claims speak of: the buckets of an index as the list of        *)
(* <<value, occurrences>>, and the canonical order of the values.          *)
(***************************************************************************)
Occs(b) == [k \in 1..b.size |-> b.data[k]]
Buckets(idx) == [i \in 1..idx.size |-> [val |-> idx.data[i].val, occs |-> Occs(idx.data[i])]]

\* s1 before s2 byte-wise
BytesLess(s1, s2) ==
    \E k \in 1..(Len(s2)) :
        /\ \A n \in 1..(k - 1) : n <= Len(s1) /\ s1[n] = s2[n]
        /\ (k > Len(s1) \/ s1[k] < s2[k])

\* every int before every string, ints numerically, strings byte-wise
CanonLess(v1, v2) ==
    \/ v1.isint /\ ~v2.isint
    \/ v1.isint /\ v2.isint /\ v1.i < v2.i
    \/ ~v1.isint /\ ~v2.isint /\ BytesLess(v1.s, v2.s)

\* the place of the bucket of value v in the list bs, 0 when it has none
BucketOf(bs, v) == IF \E i \in DOMAIN bs : bs[i].val = v
                   THEN CHOOSE i \in DOMAIN bs : bs[i].val = v ELSE 0

\* the place of relation r in the bucket of v, 0 when it is not there
OccOf(bs, v, r) ==
    IF BucketOf(bs, v) # 0 /\ \E k \in DOMAIN bs[BucketOf(bs, v)].occs : bs[BucketOf(bs, v)].occs[k].data = r
    THEN CHOOSE k \in DOMAIN bs[BucketOf(bs, v)].occs : bs[BucketOf(bs, v)].occs[k].data = r
    ELSE 0

\* the sequence s without its element at k
Without(s, k) == [n \in 1..(Len(s) - 1) |-> IF n < k THEN s[n] ELSE s[n + 1]]

SortedStrictly(bs) == \A i, j \in DOMAIN bs : i < j => CanonLess(bs[i].val, bs[j].val)

\* C4: after any sequence of _index_insert and _index_delete calls the buckets
\* are strictly sorted by value under the canonical comparator (every int before
\* every string, ints numerically, strings byte-wise), no two buckets with equal
\* values.
C4_BucketsStrictlySorted == SortedStrictly(Buckets(index))

C4_Witness ==
    /\ last.name = "delete"
    /\ index.size = 3
    /\ \E i, j, k \in 1..index.size :
        /\ i < j /\ index.data[i].val.isint /\ index.data[j].val.isint
        /\ ~index.data[k].val.isint

\* C5: _index_insert creates the bucket in sorted position when the value has
\* none, and within a bucket every relation ref appears at most once: the insert
\* of a ref that is already in the value's bucket only increments that
\* occurrence's count and adds no second occurrence.
C5_InsertKeepsRefsUnique ==
    [][last'.name = "insert" /\ SortedStrictly(Buckets(index)) =>
        LET bs == Buckets(index)
            as == Buckets(index')
            v == last'.val
            r == last'.ref
            i == BucketOf(bs, v)
            k == OccOf(bs, v, r)
        IN /\ \A n \in DOMAIN as : \A x, y \in DOMAIN as[n].occs :
                  as[n].occs[x].data = as[n].occs[y].data => x = y
           /\ i = 0 => /\ BucketOf(as, v) # 0
                       /\ SortedStrictly(as)
                       /\ Without(as, BucketOf(as, v)) = bs
           /\ k # 0 => as = [bs EXCEPT ![i].occs[k].count = bs[i].occs[k].count + 1]
    ]_vars

\* C6: _index_delete on a (value, relation) that is in the index decrements that
\* occurrence's count and returns 1; at count zero the occurrence is removed from
\* its bucket, and when the bucket has no occurrence left exactly that bucket is
\* removed, all other buckets and occurrences keeping content and order.
C6_DeleteRemoves ==
    [][last'.name = "delete" /\ OccOf(Buckets(index), last'.val, last'.ref) # 0 =>
        LET bs == Buckets(index)
            i == BucketOf(bs, last'.val)
            k == OccOf(bs, last'.val, last'.ref)
            dec == [bs EXCEPT ![i].occs[k].count = bs[i].occs[k].count - 1]
            cut == [bs EXCEPT ![i].occs = Without(bs[i].occs, k)]
        IN /\ last'.ret = 1
           /\ Buckets(index') =
                 IF bs[i].occs[k].count > 1 THEN dec
                 ELSE IF Len(bs[i].occs) > 1 THEN cut
                 ELSE Without(bs, i)
    ]_vars

\* C7: after a sequence of inserts followed by the matching deletes in reverse
\* order the index is back in its initial state, no bucket left, and an equality
\* search for any value returns an empty result.
C7_AddDelRestoresIndex ==
    phase = "delete" /\ undo = <<>> =>
        /\ index.size = 0
        /\ \A v \in Vals : _index_search(index, "NULL", v) = {}

\* C8: in every state reached by _index_insert and _index_delete calls every
\* bucket holds at least one occurrence and every occurrence has a count >= 1.
C8_NoEmptyBucket ==
    \A i \in 1..index.size :
        /\ index.data[i].size >= 1
        /\ \A k \in 1..index.data[i].size : index.data[i].data[k].count >= 1

\* whether value v gives predicate 0 in the search the record c describes
Matches(c, v) ==
    IF c.func = "range" THEN ~CanonLess(v, c.val) /\ ~CanonLess(c.hi, v) ELSE v = c.val

\* the relation refs held in the buckets of idx the search c matches
Matching(idx, c) ==
    UNION {{idx.data[i].data[k].data : k \in 1..idx.data[i].size} :
              i \in {n \in 1..idx.size : Matches(c, idx.data[n].val)}}

\* C9: for a predicate monotone along the index order _index_search returns
\* exactly the relation refs held in the buckets whose value gives predicate 0,
\* each ref once, and an empty list when no bucket matches; with a NULL predicate
\* it returns the refs of the bucket whose value equals the searched value.
C9_SearchReturnsMatching ==
    last.name = "search" =>
        /\ {last.found[n] : n \in DOMAIN last.found} = Matching(index, last)
        /\ Len(last.found) = Cardinality(Matching(index, last))

C9_Witness ==
    /\ last.name = "search"
    /\ last.func = "range"
    /\ Cardinality({n \in 1..index.size : Matches(last, index.data[n].val)}) = 2
    /\ index.size = 3
    /\ Len(last.found) = 1

(***************************************************************************)
(* Source preferences (src/sourcepref.c).  A string is the sequence of its *)
(* characters; the string table gives source id n the string Sources[n].   *)
(***************************************************************************)
INT_MAX == 2147483647

\* the patterns a preference list draws from: "1", "2", "1*", "?", "*2"
Patterns == {<<"1">>, <<"2">>, <<"1", "*">>, <<"?">>, <<"*", "2">>}

\* the source strings of the string table, by id: "1", "2", "12", "3", ""
Sources == <<<<"1">>, <<"2">>, <<"1", "2">>, <<"3">>, <<>>>>

\* _st_reverse: the string of a source id
_st_reverse(src) == Sources[src]

\* g_pattern_match_string on a GPatternSpec: '*' matches any run of
\* characters, '?' any one character, every other character itself
RECURSIVE g_pattern_match_string(_, _)
g_pattern_match_string(pat, str) ==
    IF pat = <<>> THEN str = <<>>
    ELSE IF Head(pat) = "*"
    THEN g_pattern_match_string(Tail(pat), str)
             \/ (str # <<>> /\ g_pattern_match_string(pat, Tail(str)))
    ELSE /\ str # <<>>
         /\ (Head(pat) = "?" \/ Head(pat) = Head(str))
         /\ g_pattern_match_string(Tail(pat), Tail(str))

RECURSIVE GetPriorityLoop(_, _, _)
GetPriorityLoop(specs, src, i) ==
    IF i < Len(specs)
    THEN IF g_pattern_match_string(specs[i + 1], src) THEN i
         ELSE GetPriorityLoop(specs, src, i + 1)
    ELSE INT_MAX

\* a priority that keeps the last matching pattern instead of the first
RECURSIVE GetPriorityLast(_, _, _)
GetPriorityLast(specs, src, i) ==
    IF i < Len(specs)
    THEN IF g_pattern_match_string(specs[i + 1], src)
            /\ GetPriorityLast(specs, src, i + 1) = INT_MAX THEN i
         ELSE GetPriorityLast(specs, src, i + 1)
    ELSE INT_MAX

GetPriorityMutant(specs, src) == GetPriorityLast(specs, src, 0)

_get_priority(specs, src) == GetPriorityLoop(specs, src, 0)

\* s4_sourcepref_create: the patterns of srcprefs compiled in order, an empty table
s4_sourcepref_create(srcprefs) == [specs |-> srcprefs, table |-> {}]

\* g_hash_table_lookup (sp->table, &src): the table is the set of its <<key, value>>
TableHas(table, src) == \E e \in table : e[1] = src
TableGet(table, src) == (CHOOSE e \in table : e[1] = src)[2]

\* the result is <<the returned priority, the table afterwards>>
s4_sourcepref_get_priority(s, src) ==
    IF ~TableHas(s.table, src)
    THEN LET pri == _get_priority(s.specs, _st_reverse(src))
         IN <<pri, s.table \cup {<<src, pri>>}>>
    ELSE <<TableGet(s.table, src), s.table>>

\* the preference lists of at most MaxPrefs patterns
PrefLists == UNION {[1..n -> Patterns] : n \in 0..MaxPrefs}

SpInit ==
    /\ IndexStart
    /\ \E srcprefs \in PrefLists : sp = s4_sourcepref_create(srcprefs)
    /\ spcall = NoSpCall
    /\ LogIdle /\ HashIdle /\ AuxIdle

SpGetPriority ==
    \E src \in DOMAIN Sources :
        /\ sp' = [sp EXCEPT !.table = s4_sourcepref_get_priority(sp, src)[2]]
        /\ spcall' = [src |-> src, ret |-> s4_sourcepref_get_priority(sp, src)[1]]
        /\ UNCHANGED <<indexVars, logVars, auxVars>>

SpNext == SpGetPriority

SpecSourcepref == SpInit /\ [][SpNext]_vars

\* C10: the priority of a source is the index of the first pattern of the
\* preference list that matches the source string, and INT_MAX when no pattern
\* matches; with the list ["1", "2"] source "1" has a strictly lower priority
\* number than source "2".
C10_PriorityIsFirstMatch ==
    spcall.src # 0 =>
        LET str == Sources[spcall.src]
            hits == {n \in 1..Len(sp.specs) : g_pattern_match_string(sp.specs[n], str)}
        IN /\ hits = {} => spcall.ret = INT_MAX
           /\ hits # {} => /\ spcall.ret + 1 \in hits
                           /\ \A n \in hits : spcall.ret + 1 <= n
           /\ sp.specs = <<<<"1">>, <<"2">>>> /\ TableHas(sp.table, 1) /\ TableHas(sp.table, 2)
                 => TableGet(sp.table, 1) < TableGet(sp.table, 2)

C10_Witness ==
    /\ sp.specs = <<<<"1">>, <<"2">>>>
    /\ TableHas(sp.table, 1) /\ TableHas(sp.table, 2) /\ TableHas(sp.table, 4)
    /\ spcall = [src |-> 2, ret |-> 1]

(***************************************************************************)
(* The write-ahead log: src/src/lib/log.c                                  *)
(***************************************************************************)

\* #define LOG_SIZE (2*1024*1024)
LOG_SIZE == 2097152
\* sizeof (log_number_t): the counter is a 64-bit number
LogNumberSize == 8
\* sizeof (struct log_header): a 32-bit type and the counter, aligned
HeaderSize == 16
\* sizeof (struct mod_header): five int32_t
ModHeaderSize == 20
\* sizeof (int32_t)
Int32Size == 4

\* An operation of an oplist, by the lengths _log_mod puts in its mod_header:
\* a string by its strlen, an integer value by -1.
Op(type, ka, va, kb, vb, s) ==
    [type |-> type, ka_len |-> ka, va_len |-> va, kb_len |-> kb, vb_len |-> vb, s_len |-> s]
NoOp == Op("NONE", 0, 0, 0, 0, 0)
\* s4_add (s4, "entry", "a", "property", "a", "1") of test_log
OpA == Op("ADD", 5, 1, 8, 1, 1)
\* the same keys with two integer values, deleted
OpD == Op("DEL", 5, 0 - 1, 8, 0 - 1, 1)
\* a short key_a and a key_b that fills half of the log
BigLen == LOG_SIZE \div 2
OpB == Op("ADD", 1, 1, BigLen, 1, 1)
\* two keys of the same length that fill a quarter of the log each
FillLen == (LOG_SIZE - 256) \div 4
OpF == Op("ADD", FillLen, 0, FillLen, 0, 0)
\* the marker a sync puts in its oplist
OpW == Op("WRITING", 0, 0, 0, 0, 0)
\* the oplists handed to a commit
TxLists == {<<OpA, OpD>>, <<OpB>>, <<OpF>>}

\* A record of the log file: the header at offset off, followed by len - HeaderSize
\* bytes of payload (the operation of an ADD or DEL, the counter of a CHECKPOINT).
Rec(off, type, num) ==
    [off |-> off, len |-> HeaderSize, type |-> type, num |-> num, op |-> NoOp, val |-> 0]
\* what fread gives where no record starts: no header the log ever wrote
Junk == Rec(0, "JUNK", 0 - 1)

Overlaps(r, a, n) == r.off < a + n /\ r.off + r.len > a
\* fwrite of n bytes at offset a: what was there is gone
Clobbered(file, a, n) == {r \in file : Overlaps(r, a, n)}
\* a write destroys a record that lies after the last checkpoint and before the position
\* the log had reached when the call began
Lost(w, a, n) ==
    \E r \in Clobbered(w.file, a, n) :
        r.num > w.ld.last_checkpoint /\ r.num < w.start

Max2(a, b) == IF a >= b THEN a ELSE b
SetMax(S) == CHOOSE x \in S : \A y \in S : y <= x
\* the log file is truncated to LOG_SIZE at creation and grows if written past that
FileSize(file) == SetMax({LOG_SIZE} \cup {r.off + r.len : r \in file})
HeaderAt(file, pos) ==
    IF \E r \in file : r.off = pos THEN CHOOSE r \in file : r.off = pos ELSE Junk

\* the log of a process as the writing functions see it: the file, the log data,
\* the write position when the call began, the bytes the call has written and whether
\* it destroyed a live record
LogW(file, ldata) ==
    [file |-> file, ld |-> ldata, start |-> ldata.next_logpoint, bytes |-> 0, lost |-> FALSE]

PutHeader(w, type, num) ==
    [w EXCEPT !.file = (w.file \ Clobbered(w.file, w.ld.fpos, HeaderSize))
                           \cup {Rec(w.ld.fpos, type, num)},
              !.ld.fpos = w.ld.fpos + HeaderSize,
              !.bytes = w.bytes + HeaderSize,
              !.lost = w.lost \/ Lost(w, w.ld.fpos, HeaderSize)]

_log_write_header(w, type, size) ==
    LET pos == w.ld.next_logpoint % LOG_SIZE
        round == w.ld.next_logpoint \div LOG_SIZE
        wrap == (pos + size) > (LOG_SIZE - HeaderSize * 2)
        w1 == IF wrap
              THEN [PutHeader(w, "WRAP", pos + round * LOG_SIZE) EXCEPT !.ld.fpos = 0]
              ELSE w
        pos1 == IF wrap THEN 0 ELSE pos
        round1 == IF wrap THEN round + 1 ELSE round
        w2 == PutHeader(w1, type, pos1 + round1 * LOG_SIZE)
    IN  [w2 EXCEPT !.ld.last_logpoint = w.ld.next_logpoint,
                   !.ld.next_logpoint = w2.ld.fpos + round1 * LOG_SIZE + size]

\* the fwrite calls that follow a header: n bytes of payload
WritePayload(w, n, op, val) ==
    LET h == HeaderAt(w.file, w.ld.fpos - HeaderSize)
        rest == (w.file \ {h}) \ Clobbered(w.file \ {h}, w.ld.fpos, n)
    IN  [w EXCEPT !.file = rest \cup {[h EXCEPT !.len = HeaderSize + n, !.op = op, !.val = val]},
                  !.ld.fpos = w.ld.fpos + n,
                  !.bytes = w.bytes + n,
                  !.lost = w.lost \/ Lost([w EXCEPT !.file = w.file \ {h}], w.ld.fpos, n)]

_get_size(hdr) ==
    ModHeaderSize + hdr.ka_len + hdr.kb_len + hdr.s_len
        + (IF hdr.va_len = 0 - 1 THEN Int32Size ELSE hdr.va_len)
        + (IF hdr.vb_len = 0 - 1 THEN Int32Size ELSE hdr.vb_len)

RECURSIVE EstimateLoop(_, _)
\* the loop of _estimate_size over the first k operations: <<ret, largest, writing>>
EstimateLoop(list, k) ==
    IF k = 0 THEN <<0, 0, 0>>
    ELSE LET e == EstimateLoop(list, k - 1)
             op == list[k]
             size == IF op.type \in {"ADD", "DEL"}
                     THEN HeaderSize + ModHeaderSize
                              + op.ka_len + op.ka_len + op.s_len
                              + op.va_len + op.vb_len
                     ELSE HeaderSize
         IN  <<e[1] + size, Max2(size, e[2]), IF op.type = "WRITING" THEN 1 ELSE e[3]>>

_estimate_size(list) ==
    LET e == EstimateLoop(list, Len(list))
    IN  [size |-> IF e[1] = 0 THEN 0 ELSE e[1] + 3 * HeaderSize + e[2], writing |-> e[3]]

_log_mod(w, op) ==
    WritePayload(_log_write_header(w, op.type, _get_size(op)), _get_size(op), op, 0)

_log_simple(w, type) == _log_write_header(w, type, 0)

_log_checkpoint(w) ==
    LET w1 == _log_simple(w, "BEGIN")
        w2 == WritePayload(_log_write_header(w1, "CHECKPOINT", Int32Size),
                           LogNumberSize, NoOp, w1.ld.last_synced)
        w3 == [w2 EXCEPT !.ld.last_checkpoint = w2.ld.last_synced]
    IN  _log_simple(w3, "END")

RECURSIVE WriteOps(_, _, _)
\* the loop of _log_write over the first k operations of the oplist
WriteOps(w, list, k) ==
    IF k = 0 THEN w
    ELSE LET w1 == WriteOps(w, list, k - 1)
             op == list[k]
         IN  IF op.type \in {"ADD", "DEL"} THEN _log_mod(w1, op)
             ELSE IF op.type = "WRITING" THEN _log_simple(w1, "WRITING")
             ELSE w1

\* the test of log.c:387 that decides whether _start_sync is called
StartSync(ldata) == ldata.last_synced > (ldata.last_checkpoint + LOG_SIZE \div 2)

\* _log_write up to its space check: <<refused, w>>
LogWriteCheck(w, list) ==
    LET e == _estimate_size(list)
        w1 == IF e.writing = 1 THEN [w EXCEPT !.ld.last_synced = w.ld.last_logpoint] ELSE w
    IN  <<(w1.ld.next_logpoint + e.size) > (w1.ld.last_checkpoint + LOG_SIZE), w1>>

_log_write(w, list) ==
    LET e == _estimate_size(list)
        c == LogWriteCheck(w, list)
    IN  IF e.size = 0 THEN [ret |-> 1, w |-> w, est |-> 0, sync |-> FALSE]
        ELSE IF c[1] THEN [ret |-> e.writing, w |-> c[2], est |-> e.size, sync |-> FALSE]
        ELSE [ret |-> 1,
              w |-> _log_simple(WriteOps(_log_simple(c[2], "BEGIN"), list, Len(list)), "END"),
              est |-> e.size,
              sync |-> StartSync(c[2].ld)]

\* _log_write of a process that is killed after the first k operations reached the file
LogWriteCut(w, list, k) ==
    LET c == LogWriteCheck(w, list)
    IN  IF _estimate_size(list).size = 0 \/ c[1] THEN c[2]
        ELSE WriteOps(_log_simple(c[2], "BEGIN"), list, k)

\* _oplist_execute: the ADD and DEL operations of the oplist reach the store in order
_oplist_execute(st, oplist) ==
    st \o SelectSeq(oplist, LAMBDA op : op.type \in {"ADD", "DEL"})

_log_init(ldata, last_checkpoint) ==
    [ldata EXCEPT !.last_synced = last_checkpoint,
                  !.last_logpoint = last_checkpoint,
                  !.last_checkpoint = last_checkpoint]

\* _reread_file: the store and the counters are read again from the snapshot
_reread_file(r, sn) ==
    [r EXCEPT !.store = sn.store, !.ld = _log_init(r.ld, sn.checkpoint)]

\* an oplist that is there before any BEGIN
EmptyOplist == [on |-> TRUE, ops |-> <<>>]

\* oplist == NULL
NullOplist == [on |-> FALSE, ops |-> <<>>]

\* a _read_mod that hands the operation to the store as soon as it is read
ReadModEager(r, hdr) ==
    IF ~r.oplist.on THEN <<0, r>>
    ELSE <<1, [r EXCEPT !.ld.fpos = hdr.off + hdr.len,
                        !.oplist.ops = Append(r.oplist.ops, hdr.op),
                        !.store = Append(r.store, hdr.op)]>>

\* _read_mod on the record hdr, whose header has been read: <<return value, state>>.
\* Without an oplist nothing is read; otherwise the payload is read and the operation
\* joins the oplist.
_read_mod(r, hdr) ==
    IF ~r.oplist.on THEN <<0, r>>
    ELSE <<1, [r EXCEPT !.ld.fpos = hdr.off + hdr.len,
                        !.oplist.ops = Append(r.oplist.ops, hdr.op)]>>

\* the body of the loop of _log_redo for the header hdr, read at the position r.ld.fpos
RedoRecord(r, hdr) ==
    LET r1 == [r EXCEPT !.ld.last_logpoint = r.ld.next_logpoint,
                        !.ld.fpos = r.ld.fpos + HeaderSize]
        r2 == CASE hdr.type = "WRAP" ->
                     [r1 EXCEPT !.round = r1.round + 1, !.ld.fpos = 0]
                [] hdr.type \in {"ADD", "DEL"} ->
                     IF _read_mod(r1, hdr)[1] = 0
                     THEN [_read_mod(r1, hdr)[2] EXCEPT !.invalid_entry = TRUE]
                     ELSE _read_mod(r1, hdr)[2]
                [] hdr.type = "CHECKPOINT" ->
                     [r1 EXCEPT !.new_checkpoint = hdr.val,
                                !.ld.fpos = r1.ld.fpos + LogNumberSize]
                [] hdr.type = "WRITING" ->
                     [r1 EXCEPT !.new_synced = r1.ld.last_logpoint]
                [] hdr.type = "BEGIN" ->
                     [r1 EXCEPT !.oplist = [on |-> TRUE, ops |-> <<>>],
                                !.new_checkpoint = 0 - 1,
                                !.new_synced = 0 - 1]
                [] hdr.type = "END" ->
                     IF ~r1.oplist.on THEN r1
                     ELSE LET r3 == [r1 EXCEPT !.store = _oplist_execute(r1.store, r1.oplist.ops),
                                               !.oplist = NullOplist,
                                               !.last_valid_logpoint = r1.ld.last_logpoint]
                          IN  IF r1.new_checkpoint # 0 - 1
                              THEN [r3 EXCEPT !.ld.last_synced = r1.new_checkpoint,
                                              !.ld.last_checkpoint = r1.new_checkpoint]
                              ELSE IF r1.new_synced # 0 - 1
                              THEN [r3 EXCEPT !.ld.last_synced = r1.new_synced]
                              ELSE r3
                [] hdr.type = "INIT" -> r1
                [] OTHER -> [r1 EXCEPT !.invalid_entry = TRUE]
    IN  [r2 EXCEPT !.ld.next_logpoint = r2.ld.fpos + r2.round * LOG_SIZE,
                   !.trace = Append(r2.trace, [type |-> hdr.type, op |-> hdr.op,
                                               num |-> hdr.num, store |-> r2.store])]

RECURSIVE RedoLoopAnyCounter(_, _)
\* a loop that does not compare the counter of the header
RedoLoopAnyCounter(r, file) ==
    LET pos == r.ld.fpos
        hdr == HeaderAt(file, pos)
    IN  IF ~r.invalid_entry /\ pos + HeaderSize <= FileSize(file)
        THEN RedoLoopAnyCounter(RedoRecord(r, hdr), file)
        ELSE r

RECURSIVE RedoLoop(_, _)
\* the loop of _log_redo: pos is the position of the file, where the next header is read
RedoLoop(r, file) ==
    LET pos == r.ld.fpos
        hdr == HeaderAt(file, pos)
    IN  IF /\ ~r.invalid_entry
           /\ pos + HeaderSize <= FileSize(file)
           /\ hdr.num = pos + r.round * LOG_SIZE
        THEN RedoLoop(RedoRecord(r, hdr), file)
        ELSE r

\* _log_redo of a process with log data ldata and store st, on the file and the snapshot sn:
\* its return value, the log data and the store it leaves, and the records it read
_log_redo(ldata, st, file, sn) ==
    LET pos0 == ldata.last_logpoint % LOG_SIZE
        hdr == HeaderAt(file, pos0)
        r0 == [ld |-> ldata, store |-> st, oplist |-> NullOplist,
               new_checkpoint |-> 0 - 1, new_synced |-> 0 - 1,
               last_valid_logpoint |-> 0, invalid_entry |-> FALSE, round |-> 0,
               trace |-> <<>>]
        r1 == IF hdr.num # ldata.last_logpoint THEN _reread_file(r0, sn) ELSE r0
        r2 == [r1 EXCEPT !.last_valid_logpoint = r1.ld.last_logpoint,
                         !.ld.next_logpoint = r1.ld.last_logpoint + HeaderSize,
                         !.round = (r1.ld.last_logpoint + HeaderSize) \div LOG_SIZE,
                         !.ld.fpos = (r1.ld.last_logpoint + HeaderSize) % LOG_SIZE]
        r3 == RedoLoop(r2, file)
    IN  IF pos0 + HeaderSize > FileSize(file)
        THEN [ret |-> 0, ld |-> [ldata EXCEPT !.fpos = pos0], store |-> st,
              base |-> st, trace |-> <<>>]
        ELSE [ret |-> 1,
              ld |-> [r3.ld EXCEPT !.last_logpoint = r3.last_valid_logpoint,
                                   !.next_logpoint = r3.last_valid_logpoint + HeaderSize,
                                   !.fpos = (r3.last_valid_logpoint + HeaderSize) % LOG_SIZE],
              store |-> r3.store, base |-> r2.store, trace |-> r3.trace]

\* _log_open of a database that has no log file yet: the file is created and holds an INIT record
_log_open ==
    _log_simple(LogW({}, NoLd), "INIT")

\* a process that opens an existing database: _log_open, the snapshot read and _log_init
\* with its counter, and the _log_redo of the first _log_lock_file
OpenExisting(file, sn) ==
    _log_redo(_log_init(NoLd, sn.checkpoint), sn.store, file, sn)

LogCall(name, ret) == [NoLogCall EXCEPT !.name = name, !.ret = ret]

LogInit ==
    /\ IndexStart /\ SpIdle /\ HashIdle /\ AuxIdle
    /\ logfile = _log_open.file
    /\ ld = _log_open.ld
    /\ store = <<>>
    /\ snap = NoSnap
    /\ lg = NoLogCall
    /\ ntx = 0

\* a commit: _log_write of the oplist, and its operations applied when the log took it
LogCommit ==
    /\ ntx < MaxTx
    /\ \E list \in TxLists :
        LET res == _log_write(LogW(logfile, ld), list)
        IN  /\ logfile' = res.w.file
            /\ ld' = res.w.ld
            /\ store' = IF res.ret # 0 THEN _oplist_execute(store, list) ELSE store
            /\ lg' = [LogCall("write", res.ret) EXCEPT !.est = res.est,
                                                       !.bytes = res.w.bytes,
                                                       !.lost = res.w.lost,
                                                       !.sync = res.sync]
    /\ ntx' = ntx + 1
    /\ UNCHANGED <<snap, indexVars, spVars, auxVars>>

\* a sync: _log_write of an oplist with the WRITING marker, and the store written to the
\* snapshot with the counter the marker stands for
LogSync ==
    /\ ntx < MaxTx
    /\ LET res == _log_write(LogW(logfile, ld), <<OpW>>)
       IN  /\ logfile' = res.w.file
           /\ ld' = res.w.ld
           /\ snap' = [store |-> store, checkpoint |-> res.w.ld.last_synced]
           /\ lg' = [LogCall("sync", res.ret) EXCEPT !.est = res.est,
                                                     !.bytes = res.w.bytes,
                                                     !.lost = res.w.lost,
                                                     !.sync = res.sync]
    /\ ntx' = ntx + 1
    /\ UNCHANGED <<store, indexVars, spVars, auxVars>>

LogCheckpoint ==
    /\ ntx < MaxTx
    /\ LET w == _log_checkpoint(LogW(logfile, ld))
       IN  /\ logfile' = w.file
           /\ ld' = w.ld
           /\ lg' = [LogCall("checkpoint", 1) EXCEPT !.bytes = w.bytes, !.lost = w.lost]
    /\ ntx' = ntx + 1
    /\ UNCHANGED <<store, snap, indexVars, spVars, auxVars>>

\* the process is killed, between two calls or inside a _log_write that has written the
\* first k operations, and another process opens the database
LogRecover ==
    \E list \in TxLists \cup {<<>>} : \E k \in 0..Len(list) :
        /\ k < Len(list) \/ list = <<>>
        /\ list # <<>> => ntx < MaxTx
        /\ LET w == IF list = <<>> THEN LogW(logfile, ld)
                    ELSE LogWriteCut(LogW(logfile, ld), list, k)
               res == OpenExisting(w.file, snap)
           IN  /\ logfile' = w.file
               /\ ld' = res.ld
               /\ store' = res.store
               /\ lg' = [LogCall("recover", res.ret) EXCEPT !.clean = store,
                                                            !.base = res.base,
                                                            !.trace = res.trace]
        /\ ntx' = IF list = <<>> THEN ntx ELSE ntx + 1
        /\ UNCHANGED <<snap, indexVars, spVars, auxVars>>

LogNext == LogCommit \/ LogSync \/ LogCheckpoint \/ LogRecover

SpecLog == LogInit /\ [][LogNext]_vars

\* the first _log_lock_file of the process after its last _log_unlock_file:
\* _log_redo on its own log data
LogRedo ==
    /\ LET res == _log_redo(ld, store, logfile, snap)
       IN  /\ ld' = res.ld
           /\ store' = res.store
           /\ lg' = [LogCall("redo", res.ret) EXCEPT !.clean = store,
                                                     !.base = res.base,
                                                     !.trace = res.trace]
    /\ UNCHANGED <<logfile, snap, ntx, indexVars, spVars, auxVars>>

LogRedoNext == LogNext \/ LogRedo

\* the log of a process that unlocks and locks the file between its calls
SpecLogRedo == LogInit /\ [][LogRedoNext]_vars

\* The log files a process may find when it opens a database: after the
\* records up to the snapshot's checkpoint come at most MaxRecs records, each
\* of one of these kinds. UNKNOWN is a header of a type the log does not know,
\* STALE a header left by an earlier rotation, whose counter is LOG_SIZE less
\* than its place.
RedoKinds == {"BEGIN", "END", "ADD", "WRITING", "CHECKPOINT", "WRAP", "UNKNOWN", "STALE"}
RedoFiles == UNION {[1..n -> RedoKinds] : n \in 0..MaxRecs}

\* the record of kind at the place w has reached
RedoRec(kind, w) ==
    LET num == w.pos + w.round * LOG_SIZE
    IN  CASE kind = "ADD" ->
                [Rec(w.pos, kind, num) EXCEPT !.len = HeaderSize + _get_size(OpA), !.op = OpA]
          [] kind = "CHECKPOINT" ->
                [Rec(w.pos, kind, num) EXCEPT !.len = HeaderSize + LogNumberSize,
                                              !.val = num - HeaderSize]
          [] kind = "STALE" -> Rec(w.pos, "BEGIN", num - LOG_SIZE)
          [] OTHER -> Rec(w.pos, kind, num)

RECURSIVE RedoLay(_, _, _)
\* the file after the first k of the kinds are laid down one after the other;
\* after a WRAP the next record is at offset 0 of the next rotation
RedoLay(kinds, k, w) ==
    IF k = 0 THEN w
    ELSE LET v == RedoLay(kinds, k - 1, w)
             rec == RedoRec(kinds[k], v)
         IN  [file |-> (v.file \ Clobbered(v.file, rec.off, rec.len)) \cup {rec},
              pos |-> IF rec.type = "WRAP" THEN 0 ELSE rec.off + rec.len,
              round |-> IF rec.type = "WRAP" THEN v.round + 1 ELSE v.round]

\* the records start after the INIT record of a new log, or after the END of
\* a checkpointed transaction near the end of the file, where MaxRecs records
\* still end before LOG_SIZE
RedoStarts == {0, LOG_SIZE - (MaxRecs + 1) * 4 * HeaderSize}

RedoInit ==
    /\ \E kinds \in RedoFiles : \E start \in RedoStarts :
          /\ logfile = RedoLay(kinds, Len(kinds),
                               [file |-> {Rec(0, "INIT", 0), Rec(start, "END", start)} \ {Rec(0, "END", 0)},
                                pos |-> start + HeaderSize, round |-> 0]).file
          /\ snap = [store |-> <<>>, checkpoint |-> start]
    /\ ld = NoLd /\ store = <<>> /\ lg = NoLogCall /\ ntx = 0
    /\ IndexStart /\ SpIdle /\ HashIdle /\ AuxIdle

\* the process opens the database and redoes the log
RedoOpen ==
    /\ lg.name = "none"
    /\ LET res == OpenExisting(logfile, snap)
       IN  /\ ld' = res.ld
           /\ store' = res.store
           /\ lg' = [LogCall("recover", res.ret) EXCEPT !.clean = store,
                                                        !.base = res.base,
                                                        !.trace = res.trace]
    /\ UNCHANGED <<logfile, snap, ntx, indexVars, spVars, auxVars>>

SpecRedo == RedoInit /\ [][RedoOpen]_vars

(***************************************************************************)
(* Claims about the log                                                    *)
(***************************************************************************)

\* the BEGIN records of the trace with their matching END: no BEGIN and no END in between
TxPairs(tr) ==
    {p \in (1..Len(tr)) \X (1..Len(tr)) :
        /\ p[1] < p[2]
        /\ tr[p[1]].type = "BEGIN" /\ tr[p[2]].type = "END"
        /\ \A m \in (p[1] + 1)..(p[2] - 1) : tr[m].type \notin {"BEGIN", "END"}}

\* m is an ADD or DEL between a BEGIN and its matching END, and that END is among the
\* first k records
Closed(tr, m, k) ==
    /\ tr[m].type \in {"ADD", "DEL"}
    /\ \E p \in TxPairs(tr) : p[1] < m /\ m < p[2] /\ p[2] <= k

RECURSIVE ClosedOps(_, _, _)
\* the operations of the first n records that are closed within the first k, in log order
ClosedOps(tr, n, k) ==
    IF n = 0 THEN <<>>
    ELSE IF Closed(tr, n, k) THEN Append(ClosedOps(tr, n - 1, k), tr[n].op)
    ELSE ClosedOps(tr, n - 1, k)

\* C1: when a recovery has run, after each record it read the store holds, on top of the
\* store it started from, exactly the ADD and DEL operations that lie between a BEGIN and
\* its matching END read so far, in log order; the operations of a transaction whose END
\* was not read (never written, or cut off by a counter mismatch or an invalid record)
\* are not in the store it leaves.
C1_RedoAppliesClosedTransactions ==
    lg.name = "recover" =>
        /\ \A k \in 1..Len(lg.trace) :
              lg.trace[k].store = lg.base \o ClosedOps(lg.trace, k, k)
        /\ store = lg.base \o ClosedOps(lg.trace, Len(lg.trace), Len(lg.trace))

\* a recovery read a whole transaction, which it applied, and then an ADD of a
\* transaction that has no END, which it did not
C1_Witness ==
    /\ lg.name = "recover"
    /\ store # lg.base
    /\ \E b \in 1..Len(lg.trace) :
          /\ lg.trace[b].type = "BEGIN"
          /\ \E m \in (b + 1)..Len(lg.trace) : lg.trace[m].type = "ADD"
          /\ \A m \in (b + 1)..Len(lg.trace) : lg.trace[m].type # "END"

\* C2: a process that opens the database after the writer was killed, starting from the
\* snapshot of the last sync and replaying the log, ends with the store the writer had:
\* every transaction whose _log_write returned success, and nothing else.
C2_RecoveryRestoresStore ==
    lg.name = "recover" => store = lg.clean

\* C3: the write position never passes last_checkpoint + LOG_SIZE, no write destroys a
\* record written after the last checkpoint, and the estimate _log_write checks is at
\* least the number of bytes it then writes.
C3_WriteStaysWithinLog ==
    /\ ld.next_logpoint <= ld.last_checkpoint + LOG_SIZE
    /\ ~lg.lost
    /\ lg.name \in {"write", "sync"} => lg.est >= lg.bytes

\* C13: _log_write returns non-zero only when it has appended the oplist between a BEGIN
\* and an END record (or there was nothing to write); when it refuses the oplist for lack
\* of room it returns 0, whether the oplist holds ADD, DEL or WRITING operations.
C13_RefusedWriteReturnsZero ==
    lg.name \in {"write", "sync"} =>
        /\ lg.ret # 0 => lg.bytes > 0 \/ lg.est = 0
        /\ lg.est > 0 /\ lg.bytes = 0 => lg.ret = 0

\* C14: when a _log_write has appended a transaction and more than LOG_SIZE/2 bytes are
\* then logged since the last checkpoint, the call has signalled the sync thread.
C14_SyncSignalledAtHalf ==
    /\ lg.name \in {"write", "sync"}
    /\ lg.bytes > 0
    /\ ld.next_logpoint - ld.last_checkpoint > LOG_SIZE \div 2
    => lg.sync

\* C20: every record in the log file carries the counter of the place it is written at
\* (its file offset is the counter modulo LOG_SIZE), and after each call the write
\* position next_logpoint modulo LOG_SIZE is the position of the file.
C20_CounterIsFilePosition ==
    /\ \A r \in logfile : r.num % LOG_SIZE = r.off
    /\ ld.next_logpoint % LOG_SIZE = ld.fpos

\* the records a call has put into the file
Written(old, new) == new \ old

\* C21: in every write (_log_write or _log_checkpoint) a WRAP record is
\* followed by the record at offset 0 with the counter of the next rotation
\* and is written only where that record would not have fitted before
\* LOG_SIZE - 2 * sizeof (struct log_header); a record written elsewhere did
\* fit; the WRAP record and every record end at or before LOG_SIZE; and the
\* counters only grow: the records of a call carry counters from
\* next_logpoint on, next_logpoint ends above them, and no redo of the
\* process takes next_logpoint back
C21_WrapKeepsRecordsInLog ==
    [][/\ lg'.name \in {"write", "sync", "checkpoint"} =>
             \A r \in Written(logfile, logfile') :
                /\ r.type = "WRAP" =>
                      \E q \in Written(logfile, logfile') :
                         /\ q.off = 0
                         /\ q.num = (r.num \div LOG_SIZE + 1) * LOG_SIZE
                         /\ r.off + (q.len - HeaderSize) > LOG_SIZE - 2 * HeaderSize
                /\ r.type # "WRAP" /\ r.off # 0 =>
                      r.off + (r.len - HeaderSize) <= LOG_SIZE - 2 * HeaderSize
                /\ r.off + r.len <= LOG_SIZE
                /\ r.num >= ld.next_logpoint /\ r.num < ld'.next_logpoint
                /\ \A q \in Written(logfile, logfile') : q # r => q.num # r.num
       /\ lg'.name = "redo" => ld'.next_logpoint >= ld.next_logpoint
      ]_vars

\* the record of the file that the k-th record of the trace was read from
RedoRead(tr, k) == HeaderAt(logfile, tr[k].num % LOG_SIZE)

\* the counter expected after the k-th record of the trace: the file position
\* behind it, in the next rotation after a WRAP; behind the start for k = 0
RedoExpected(tr, k) ==
    IF k = 0 THEN snap.checkpoint + HeaderSize
    ELSE IF tr[k].type = "WRAP" THEN (tr[k].num \div LOG_SIZE + 1) * LOG_SIZE
    ELSE tr[k].num + RedoRead(tr, k).len

\* the k-th record of the trace is one the loop gives up at: a type it does
\* not know, or an ADD or DEL with no BEGIN open
RedoInvalid(tr, k) ==
    \/ tr[k].type \notin {"BEGIN", "END", "ADD", "DEL", "WRITING", "CHECKPOINT", "WRAP", "INIT"}
    \/ /\ tr[k].type \in {"ADD", "DEL"}
       /\ ~\E b \in 1..(k - 1) :
              tr[b].type = "BEGIN" /\ \A m \in (b + 1)..(k - 1) : tr[m].type # "END"

RECURSIVE RedoSynced(_, _)
\* last_checkpoint and last_synced as the first k records of the trace should
\* leave them: an END that closes a transaction takes both from the last
\* CHECKPOINT of the transaction, or else last_synced from its last WRITING
RedoSynced(tr, k) ==
    IF k = 0 THEN [last_checkpoint |-> snap.checkpoint, last_synced |-> snap.checkpoint]
    ELSE LET prev == RedoSynced(tr, k - 1)
             begins == {p[1] : p \in {q \in TxPairs(tr) : q[2] = k}}
             inside == IF begins = {} THEN {} ELSE (SetMax(begins) + 1)..(k - 1)
             cps == {m \in inside : tr[m].type = "CHECKPOINT"}
             ws == {m \in inside : tr[m].type = "WRITING"}
         IN  IF cps # {}
             THEN [last_checkpoint |-> RedoRead(tr, SetMax(cps)).val,
                   last_synced |-> RedoRead(tr, SetMax(cps)).val]
             ELSE IF ws # {}
             THEN [prev EXCEPT !.last_synced = tr[SetMax(ws)].num]
             ELSE prev

\* C23: after a recovery last_checkpoint and last_synced are what the closed
\* transactions it read make of them, in order: both the counter carried by
\* the CHECKPOINT record of the transaction, or last_synced the counter of its
\* WRITING record with last_checkpoint as it was; records of a transaction
\* without END change neither
C23_EndCommitsCheckpoint ==
    lg.name = "recover" =>
        /\ ld.last_checkpoint = RedoSynced(lg.trace, Len(lg.trace)).last_checkpoint
        /\ ld.last_synced = RedoSynced(lg.trace, Len(lg.trace)).last_synced

\* a transaction with a CHECKPOINT record was read to its END
C23_Witness ==
    /\ lg.name = "recover" /\ snap.checkpoint = 0
    /\ Len(lg.trace) = 3
    /\ lg.trace[1].type = "BEGIN" /\ lg.trace[2].type = "CHECKPOINT" /\ lg.trace[3].type = "END"
    /\ ld.last_checkpoint = HeaderSize /\ ld.last_synced = HeaderSize

\* C17: _index_delete of a value that has no bucket, or of a relation that is not in
\* the bucket of the value, returns 0 and leaves the index as it was.
C17_DeleteAbsentChangesNothing ==
    [][last'.name = "delete" /\ OccOf(Buckets(index), last'.val, last'.ref) = 0 =>
        last'.ret = 0 /\ index' = index]_vars

\* a delete of a relation that is not in the existing bucket of the value, and a
\* delete of a value without a bucket in an index that holds other buckets
C17_Witness ==
    /\ last.name = "delete" /\ last.ret = 0
    /\ index.size >= 1
    /\ OccOf(Buckets(index), last.val, last.ref) = 0
    /\ BucketOf(Buckets(index), last.val) # 0
    /\ Bucket(index, BucketOf(Buckets(index), last.val) - 1).size >= 1

\* the first of the buckets the search c matches that holds relation r
FirstBucket(idx, c, r) ==
    SetMax({0 - i : i \in {n \in 1..idx.size :
                             /\ Matches(c, idx.data[n].val)
                             /\ \E k \in 1..idx.data[n].size : idx.data[n].data[k].data = r}})

\* C16: the relation refs _index_search returns come in the order of the buckets they
\* were found in, which is the canonical order of the values, and the same search
\* repeated on the unchanged index returns the same refs in the same order.
C16_SearchOrderIsBucketOrder ==
    [][last'.name = "search" =>
        /\ \A a, b \in DOMAIN last'.found :
              a < b => FirstBucket(index', last', last'.found[a])
                           >= FirstBucket(index', last', last'.found[b])
        /\ (/\ last.name = "search" /\ index' = index
            /\ last'.func = last.func /\ last'.val = last.val /\ last'.hi = last.hi)
               => last'.found = last.found
    ]_vars



\* C30: a _log_write that refuses its oplist for lack of room writes nothing and
\* leaves last_checkpoint, last_synced, last_logpoint and next_logpoint as they
\* were, whatever the oplist holds.
C30_RefusedWriteChangesNothing ==
    [][lg'.name \in {"write", "sync"} /\ lg'.est > 0 /\ lg'.bytes = 0 =>
          logfile' = logfile /\ ld' = ld]_vars

CheckpointClosed(tr) ==
    \E p \in TxPairs(tr) : \E m \in (p[1] + 1)..(p[2] - 1) : tr[m].type = "CHECKPOINT"

\* C24: after _log_checkpoint last_checkpoint equals last_synced and the log
\* holds the CHECKPOINT record with that counter; a recovery that follows
\* reads the transaction to its END and ends with the last_checkpoint of the
\* writer.
C24_CheckpointSurvivesRecovery ==
    [][/\ lg'.name = "checkpoint" =>
             /\ ld'.last_checkpoint = ld'.last_synced
             /\ \E r \in logfile' : r.type = "CHECKPOINT" /\ r.val = ld'.last_synced
       /\ lg.name = "checkpoint" /\ lg'.name = "recover" /\ ntx' = ntx =>
             /\ CheckpointClosed(lg'.trace)
             /\ ld'.last_checkpoint = ld.last_checkpoint
      ]_vars



\* C28: a _log_redo that the process runs right after its own successful
\* _log_write or _log_checkpoint applies no operation and leaves the store,
\* last_logpoint, next_logpoint and the position of the file where the write
\* left them.
C28_RedoAfterOwnWriteIsIdle ==
    [][/\ lg'.name = "redo"
       /\ lg.name \in {"write", "sync", "checkpoint"} /\ lg.ret # 0 /\ lg.bytes > 0
       => /\ store' = store
          /\ \A k \in DOMAIN lg'.trace : lg'.trace[k].type \notin {"ADD", "DEL"}
          /\ ld'.last_logpoint = ld.last_logpoint
          /\ ld'.next_logpoint = ld.next_logpoint
          /\ ld'.fpos = ld.fpos]_vars


\* ---------------------------------------------------------------------------
\* Fetch specifications (src/lib/fetchspec.c)
\* ---------------------------------------------------------------------------

\* the projections given to s4_fetchspec_add: a key or NULL, a source
\* preference (0 is NULL, 1 and 2 are two objects) and flags
FetchArgs == {
    [key |-> NullKey, pref |-> 0, flags |-> 0],
    [key |-> NullKey, pref |-> 1, flags |-> 1],
    [key |-> StrKey(<<97>>), pref |-> 0, flags |-> 1],
    [key |-> StrKey(<<97>>), pref |-> 1, flags |-> 0],
    [key |-> StrKey(<<97>>), pref |-> 2, flags |-> 1] }

\* the reference count of source preference p, one up and one down
s4_sourcepref_ref(prefs, p) == [prefs EXCEPT ![p] = @ + 1]
s4_sourcepref_unref(prefs, p) == [prefs EXCEPT ![p] = @ - 1]

\* the interned string with the content of key
_string_lookup(key) == IF key.null THEN NullKey ELSE StrKey(key.str)

\* the copy malloc'ed for a key
strdup(key) == StrKey(key.str)

\* a new fetchspec; the caller holds one reference on each source preference
s4_fetchspec_create ==
    [alive |-> TRUE, ref_count |-> 1, array |-> <<>>, frees |-> 0,
     prefs |-> <<1, 1>>, adds |-> <<>>, nref |-> 0, nunref |-> 0,
     kfree |-> <<>>, stfree |-> 0, call |-> NoFetchCall]

\* s4_fetchspec_add that puts the projection in front
FetchAddFront(f, key, sourcepref, flags) ==
    LET data == [flags |-> flags, const_key |-> 0,
                 key |-> IF key.null THEN NullKey ELSE strdup(key),
                 owner |-> IF key.null THEN "none" ELSE "heap",
                 pref |-> sourcepref]
    IN  [f EXCEPT !.array = <<data>> \o @,
                  !.kfree = <<0>> \o @,
                  !.prefs = IF sourcepref # 0 THEN s4_sourcepref_ref(@, sourcepref) ELSE @]

s4_fetchspec_add(f, key, sourcepref, flags) ==
    LET data == [flags |-> flags, const_key |-> 0,
                 key |-> IF key.null THEN NullKey ELSE strdup(key),
                 owner |-> IF key.null THEN "none" ELSE "heap",
                 pref |-> sourcepref]
    IN  [f EXCEPT !.array = Append(@, data),
                  !.kfree = Append(@, 0),
                  !.prefs = IF sourcepref # 0 THEN s4_sourcepref_ref(@, sourcepref) ELSE @]

\* free ((void*)data->key) for the elements S of the array: kfree counts the
\* frees of the copy each add made, stfree the frees of strings of the string
\* table; free (NULL) does nothing
free(f, S) ==
    [f EXCEPT !.kfree = [i \in DOMAIN @ |->
                            @[i] + (IF i \in S /\ f.array[i].owner = "heap" THEN 1 ELSE 0)],
              !.stfree = @ + Cardinality({i \in S : f.array[i].owner = "st"})]

\* fetchspec.c:90
UpdateFreesKey(data) == data.const_key = 0

\* a free that takes every key for its own
FreeFreesAnyKey(data) == ~data.key.null

\* fetchspec.c:111
FreeFreesKey(data) == ~data.key.null /\ data.const_key = 0

s4_fetchspec_update_key(f) ==
    LET g == free(f, {i \in DOMAIN f.array : UpdateFreesKey(f.array[i])})
    IN  [g EXCEPT !.array = [i \in DOMAIN @ |->
            [@[i] EXCEPT !.key = _string_lookup(@),
                         !.owner = IF f.array[i].key.null THEN "none" ELSE "st",
                         !.const_key = 1]]]

\* the loop of s4_fetchspec_free from element i on
RECURSIVE FreeLoop(_, _, _)
FreeLoop(array, prefs, i) ==
    IF i > Len(array) THEN prefs
    ELSE FreeLoop(array,
                  IF array[i].pref # 0 THEN s4_sourcepref_unref(prefs, array[i].pref)
                  ELSE prefs,
                  i + 1)

s4_fetchspec_free(f) ==
    LET g == free(f, {i \in DOMAIN f.array : FreeFreesKey(f.array[i])})
    IN  [g EXCEPT !.prefs = FreeLoop(f.array, @, 1), !.array = <<>>,
                  !.alive = FALSE, !.frees = @ + 1]

s4_fetchspec_ref(f) == [f EXCEPT !.ref_count = @ + 1]

\* s4_fetchspec_unref that frees while a reference is left
FetchUnrefEarly(f) ==
    LET g == [f EXCEPT !.ref_count = @ - 1]
    IN  IF g.ref_count <= 1 THEN s4_fetchspec_free(g) ELSE g

s4_fetchspec_unref(f) ==
    LET g == [f EXCEPT !.ref_count = @ - 1]
    IN  IF g.ref_count = 0 THEN s4_fetchspec_free(g) ELSE g

s4_fetchspec_size(f) == Len(f.array)

s4_fetchspec_get_key(f, idx) ==
    IF idx < 0 \/ idx >= Len(f.array) THEN NullKey ELSE f.array[idx + 1].key

s4_fetchspec_get_sourcepref(f, idx) ==
    IF idx < 0 \/ idx >= Len(f.array) THEN 0 ELSE f.array[idx + 1].pref

s4_fetchspec_get_flags(f, idx) ==
    IF idx < 0 \/ idx >= Len(f.array) THEN 0 ELSE f.array[idx + 1].flags

FetchCall(name, idx, key, pref, int) ==
    [name |-> name, index |-> idx, key |-> key, pref |-> pref, int |-> int]

FetchOthers == UNCHANGED <<indexVars, spVars, logVars, codec, locks, flock, index_table>>

FetchInit ==
    /\ fetch = s4_fetchspec_create
    /\ codec = NoCodec /\ locks = NoLocks /\ flock = NoFlock /\ index_table = NoIndexTable
    /\ IndexStart /\ HashIdle /\ SpIdle /\ LogIdle

FetchAdd ==
    /\ fetch.alive /\ Len(fetch.adds) < MaxFetch
    /\ \E a \in FetchArgs :
        fetch' = [s4_fetchspec_add(fetch, a.key, a.pref, a.flags) EXCEPT
                    !.adds = Append(@, a),
                    !.call = FetchCall("add", 0, a.key, a.pref, a.flags)]
    /\ FetchOthers

FetchUpdateKey ==
    /\ fetch.alive
    /\ fetch' = [s4_fetchspec_update_key(fetch) EXCEPT
                    !.call = FetchCall("update_key", 0, NullKey, 0, 0)]
    /\ FetchOthers

FetchRef ==
    /\ fetch.alive /\ fetch.nref < MaxRefs
    /\ fetch' = [s4_fetchspec_ref(fetch) EXCEPT
                    !.nref = @ + 1, !.call = FetchCall("ref", 0, NullKey, 0, 0)]
    /\ FetchOthers

FetchUnref ==
    /\ fetch.alive
    /\ fetch' = [s4_fetchspec_unref(fetch) EXCEPT
                    !.nunref = @ + 1, !.call = FetchCall("unref", 0, NullKey, 0, 0)]
    /\ FetchOthers

FetchSize ==
    /\ fetch.alive
    /\ fetch' = [fetch EXCEPT
                    !.call = FetchCall("size", 0, NullKey, 0, s4_fetchspec_size(fetch))]
    /\ FetchOthers

FetchGetKey ==
    /\ fetch.alive
    /\ \E idx \in (0 - 1)..MaxFetch :
        fetch' = [fetch EXCEPT
                    !.call = FetchCall("get_key", idx, s4_fetchspec_get_key(fetch, idx), 0, 0)]
    /\ FetchOthers

FetchGetSourcepref ==
    /\ fetch.alive
    /\ \E idx \in (0 - 1)..MaxFetch :
        fetch' = [fetch EXCEPT
                    !.call = FetchCall("get_sourcepref", idx, NullKey,
                                       s4_fetchspec_get_sourcepref(fetch, idx), 0)]
    /\ FetchOthers

FetchGetFlags ==
    /\ fetch.alive
    /\ \E idx \in (0 - 1)..MaxFetch :
        fetch' = [fetch EXCEPT
                    !.call = FetchCall("get_flags", idx, NullKey, 0,
                                       s4_fetchspec_get_flags(fetch, idx))]
    /\ FetchOthers

FetchNext ==
    \/ FetchAdd
    \/ FetchUpdateKey
    \/ FetchRef
    \/ FetchUnref
    \/ FetchSize
    \/ FetchGetKey
    \/ FetchGetSourcepref
    \/ FetchGetFlags

SpecFetch == FetchInit /\ [][FetchNext]_vars

\* the i-th add made on the fetchspec, counted from 0
InRange(idx) == idx >= 0 /\ idx < Len(fetch.adds)

\* C18: the fetchspec is the list of its adds in call order: the size is the
\* number of adds, the getters give the key, source preference and flags of
\* the i-th add, and NULL, NULL and 0 for an index out of range
C18_FetchspecIsOrderedList ==
    LET c == fetch.call
    IN  /\ c.name = "size" => c.int = Len(fetch.adds)
        /\ c.name = "get_key" =>
              c.key = IF InRange(c.index) THEN fetch.adds[c.index + 1].key ELSE NullKey
        /\ c.name = "get_sourcepref" =>
              c.pref = IF InRange(c.index) THEN fetch.adds[c.index + 1].pref ELSE 0
        /\ c.name = "get_flags" =>
              c.int = IF InRange(c.index) THEN fetch.adds[c.index + 1].flags ELSE 0

C18_Witness ==
    /\ fetch.call.name = "get_key" /\ fetch.call.index = 1
    /\ Len(fetch.adds) = 2
    /\ fetch.adds[1].key = NullKey /\ fetch.adds[2].key = StrKey(<<97>>)
    /\ fetch.call.key = StrKey(<<97>>)

\* C25: over any adds, update_keys and the final free, the copy each add made
\* of a non-NULL key is freed exactly once (by the first update_key or by the
\* free) and never twice, no string of the string table is freed, and
\* update_key leaves each projection with the string-table string of its
\* key's content (NULL for NULL) marked const, its flags, its source
\* preference and its place unchanged
C25_KeysFreedOnce ==
    /\ [](fetch # NoFetch =>
            /\ fetch.stfree = 0
            /\ \A i \in DOMAIN fetch.kfree :
                  /\ fetch.kfree[i] <= 1
                  /\ ~fetch.alive =>
                        fetch.kfree[i] = (IF fetch.adds[i].key.null THEN 0 ELSE 1)
                  /\ fetch.alive =>
                        fetch.kfree[i] = (IF fetch.array[i].owner = "st" THEN 1 ELSE 0))
    /\ [][fetch'.call.name = "update_key" =>
            /\ Len(fetch'.array) = Len(fetch.adds)
            /\ \A i \in DOMAIN fetch.adds :
                  /\ fetch'.array[i].key = fetch.adds[i].key
                  /\ fetch'.array[i].owner = (IF fetch.adds[i].key.null THEN "none" ELSE "st")
                  /\ fetch'.array[i].const_key = 1
                  /\ fetch'.array[i].pref = fetch.adds[i].pref
                  /\ fetch'.array[i].flags = fetch.adds[i].flags]_vars

\* update_key has run on a NULL key and a key "a": the copy of "a" is freed,
\* the projection holds the string-table string and nothing of the table is freed
C25_Witness ==
    /\ fetch.alive /\ fetch.call.name = "update_key"
    /\ Len(fetch.adds) = 2
    /\ fetch.adds[1].key = NullKey /\ fetch.adds[2].key = StrKey(<<97>>)
    /\ fetch.kfree = <<0, 1>> /\ fetch.stfree = 0
    /\ fetch.array[2].owner = "st" /\ fetch.array[2].const_key = 1

\* the projections added with source preference p
AddsWith(p) == Cardinality({i \in DOMAIN fetch.adds : fetch.adds[i].pref = p})

\* C19: the fetchspec is freed once, by the unref that takes the count to
\* zero and not before, and that free gives back the reference each
\* projection holds on its source preference
C19_FreedAtLastUnref ==
    fetch # NoFetch =>
        /\ fetch.frees <= 1
        /\ fetch.alive <=> fetch.frees = 0
        /\ fetch.alive => fetch.ref_count = 1 + fetch.nref - fetch.nunref /\ fetch.ref_count >= 1
        /\ ~fetch.alive => fetch.nunref = fetch.nref + 1 /\ fetch.ref_count = 0
        /\ \A p \in 1..2 :
              fetch.prefs[p] = 1 + (IF fetch.alive THEN AddsWith(p) ELSE 0)

C19_Witness ==
    /\ ~fetch.alive /\ fetch.frees = 1 /\ fetch.nref = 2 /\ fetch.nunref = 3
    /\ AddsWith(1) = 2 /\ fetch.prefs = <<1, 1>>



\* ---------------------------------------------------------------------------
\* The bytes of an ADD or DEL record (src/lib/log.c, _log_mod and _read_mod)
\* ---------------------------------------------------------------------------

\* the string of n characters c
Repeat(c, n) == [i \in 1..n |-> c]

\* the integers of the values logged: 0, 1, -1, 258, INT32_MAX, INT32_MIN
CodecInts == {0, 1, 0 - 1, 258, 2147483647, 0 - 2147483647 - 1}

\* the operations encoded: key_a of 'a', key_b of 'b', src of 's', and values
\* that are integers or strings of the character 0xff
CodecVals == {IntVal(i) : i \in CodecInts} \cup {StrVal(Repeat(255, n)) : n \in 0..MaxStr}
CodecOps ==
    [type : {"ADD", "DEL"},
     key_a : {Repeat(97, n) : n \in 0..MaxStr},
     val_a : CodecVals,
     key_b : {Repeat(98, n) : n \in 0..MaxStr},
     val_b : CodecVals,
     src : {Repeat(115, n) : n \in 0..1}]

\* the four bytes of an int32_t in memory, low byte first
Int32Bytes(v) ==
    LET b0 == v % 256
        v1 == (v - b0) \div 256
        b1 == v1 % 256
        v2 == (v1 - b1) \div 256
        b2 == v2 % 256
        v3 == (v2 - b2) \div 256
    IN  <<b0, b1, b2, v3 % 256>>

\* the int32_t that four bytes of memory hold
Int32Of(b) ==
    LET hi == IF b[4] >= 128 THEN b[4] - 256 ELSE b[4]
    IN  ((hi * 256 + b[3]) * 256 + b[2]) * 256 + b[1]

_write_str(str, len) == SubSeq(str, 1, len)

\* _write_val that takes every value for a string
WriteValAsStr(val, len) == _write_str(val.s, len)

_write_val(val, len) ==
    IF len = 0 - 1 THEN Int32Bytes(val.i) ELSE _write_str(val.s, len)

_get_val_len(val) == IF val.isint THEN 0 - 1 ELSE Len(val.s)

\* the mod_header _log_mod fills in for an operation
ModHeaderOf(op) ==
    [ka_len |-> Len(op.key_a), kb_len |-> Len(op.key_b), s_len |-> Len(op.src),
     va_len |-> _get_val_len(op.val_a), vb_len |-> _get_val_len(op.val_b)]

\* what _log_mod writes after the log header, and the size it gives
\* _log_write_header
LogModBytes(op) ==
    LET mhdr == ModHeaderOf(op)
    IN  [size |-> _get_size(mhdr),
         bytes |-> Int32Bytes(mhdr.ka_len) \o Int32Bytes(mhdr.va_len)
                   \o Int32Bytes(mhdr.kb_len) \o Int32Bytes(mhdr.vb_len)
                   \o Int32Bytes(mhdr.s_len)
                   \o _write_str(op.key_a, mhdr.ka_len) \o _write_val(op.val_a, mhdr.va_len)
                   \o _write_str(op.key_b, mhdr.kb_len) \o _write_val(op.val_b, mhdr.vb_len)
                   \o _write_str(op.src, mhdr.s_len)]

\* fread of n bytes from a file that holds bytes and stands at pos:
\* the bytes read (fewer at the end of the file) and the file after
fread(rd, n) ==
    LET got == IF Len(rd.bytes) - rd.pos < n THEN Len(rd.bytes) - rd.pos ELSE n
    IN  [data |-> SubSeq(rd.bytes, rd.pos + 1, rd.pos + got),
         rd |-> [rd EXCEPT !.pos = @ + got]]

_int_lookup_val(i) == IntVal(i)
_string_lookup_val(str) == StrVal(str.str)

\* the string read, NullKey for NULL
_read_str(rd, len) ==
    IF len < 0 \/ len > LOG_SIZE THEN [ret |-> NullKey, rd |-> rd]
    ELSE LET f == fread(rd, len)
         IN  IF Len(f.data) # len THEN [ret |-> NullKey, rd |-> f.rd]
             ELSE [ret |-> _string_lookup(StrKey(f.data)), rd |-> f.rd]

\* the value read, null for NULL; junk is what the variable i holds when
\* fread does not fill it
_read_val(rd, len, junk) ==
    IF len = 0 - 1
    THEN LET f == fread(rd, Int32Size)
         IN  [null |-> FALSE, rd |-> f.rd,
              ret |-> _int_lookup_val(IF Len(f.data) = Int32Size THEN Int32Of(f.data)
                                      ELSE junk)]
    ELSE LET r == _read_str(rd, len)
         IN  [null |-> r.ret.null, rd |-> r.rd, ret |-> _string_lookup_val(r.ret)]

\* the mod_header read; a field fread does not fill keeps junk
ReadModHeader(rd, junk) ==
    LET f == fread(rd, ModHeaderSize)
        field(k) == IF Len(f.data) = ModHeaderSize
                    THEN Int32Of(SubSeq(f.data, 4 * k + 1, 4 * k + 4)) ELSE junk
    IN  [mhdr |-> [ka_len |-> field(0), va_len |-> field(1), kb_len |-> field(2),
                   vb_len |-> field(3), s_len |-> field(4)],
         rd |-> f.rd]

\* _read_mod on the bytes of a record of the given type: 0, or 1 and the
\* operation put in the oplist
ReadModBytes(rd, type, junk) ==
    LET h == ReadModHeader(rd, junk)
        ka == _read_str(h.rd, h.mhdr.ka_len)
        va == _read_val(ka.rd, h.mhdr.va_len, junk)
        kb == _read_str(va.rd, h.mhdr.kb_len)
        vb == _read_val(kb.rd, h.mhdr.vb_len, junk)
        s == _read_str(vb.rd, h.mhdr.s_len)
    IN  IF ka.ret.null \/ kb.ret.null \/ va.null \/ vb.null \/ s.ret.null
        THEN [ret |-> 0, op |-> <<>>, pos |-> s.rd.pos]
        ELSE [ret |-> 1, pos |-> s.rd.pos,
              op |-> [type |-> type, key_a |-> ka.ret.str, val_a |-> va.ret,
                      key_b |-> kb.ret.str, val_b |-> vb.ret, src |-> s.ret.str]]

CodecOthers == UNCHANGED <<indexVars, spVars, logVars, fetch, locks, flock, index_table>>

CodecInit ==
    /\ \E op \in CodecOps : codec = [NoCodec EXCEPT !.stage = "op", !.op = op]
    /\ fetch = NoFetch /\ locks = NoLocks /\ flock = NoFlock /\ index_table = NoIndexTable
    /\ IndexStart /\ HashIdle /\ SpIdle /\ LogIdle

\* _log_mod writes the record
CodecLogMod ==
    /\ codec.stage = "op"
    /\ codec' = [codec EXCEPT !.stage = "written", !.bytes = LogModBytes(codec.op).bytes,
                              !.size = LogModBytes(codec.op).size]
    /\ CodecOthers

\* the process dies before the last bytes of the record reach the file
CodecCut ==
    /\ codec.stage = "written" /\ ~codec.cut
    /\ \E n \in 1..2 :
        /\ n <= Len(codec.bytes)
        /\ codec' = [codec EXCEPT !.cut = TRUE,
                                  !.bytes = SubSeq(@, 1, Len(@) - n)]
    /\ CodecOthers

\* _read_mod reads the record
CodecReadMod ==
    /\ codec.stage = "written"
    /\ \E junk \in {0, 0 - 1} :
        codec' = [codec EXCEPT !.stage = "read",
                               !.out = ReadModBytes([bytes |-> codec.bytes, pos |-> 0],
                                                    codec.op.type, junk)]
    /\ CodecOthers

CodecNext ==
    \/ CodecLogMod
    \/ CodecCut
    \/ CodecReadMod

SpecCodec == CodecInit /\ [][CodecNext]_vars

Threads == 1..2

\* the place of a mutex in the order of acquisition
LockRank(m) ==
    CASE m = "writer" -> 1
      [] m = "log" -> 2
      [] m = "strtab" -> 3
      [] m \in {"index_table", "sp"} -> 4

LockStep(act, m, to) == [act |-> act, m |-> m, to |-> to]

\* the steps of a call that touch a mutex or decide which mutex comes next;
\* a test jumps to the step to when it holds
LockProgram(op) ==
    CASE op = "s4_sourcepref_get_priority" ->
            << LockStep("lock", "sp", 0),
               LockStep("if_cached", "", 6),
               LockStep("lock", "strtab", 0),
               LockStep("unlock", "strtab", 0),
               LockStep("insert", "", 0),
               LockStep("unlock", "sp", 0) >>
      [] op = "_log_lock_file" ->
            << LockStep("lock", "log", 0),
               LockStep("if_users", "", 8),
               LockStep("lockf", "", 0),
               LockStep("lock", "strtab", 0),
               LockStep("unlock", "strtab", 0),
               LockStep("lock", "index_table", 0),
               LockStep("unlock", "index_table", 0),
               LockStep("users_inc", "", 0),
               LockStep("unlock", "log", 0) >>
      [] op = "_log_unlock_file" ->
            << LockStep("lock", "log", 0),
               LockStep("users_dec", "", 0),
               LockStep("fix_negative", "", 0),
               LockStep("if_users", "", 6),
               LockStep("unlockf", "", 0),
               LockStep("unlock", "log", 0) >>
      [] op = "_log_write" ->
            << LockStep("lock", "log", 0), LockStep("unlock", "log", 0) >>
      [] op \in {"_index_get", "_index_add"} ->
            << LockStep("lock", "index_table", 0), LockStep("unlock", "index_table", 0) >>

LockOps == {"s4_sourcepref_get_priority", "_log_lock_file", "_log_unlock_file",
            "_log_write", "_index_get", "_index_add"}

LockIdlePc == [op |-> "idle", step |-> 0]

\* the step thread t stands before, none when it is in no call or past the last
LockAt(t) ==
    LET pc == locks.pc[t]
    IN  IF pc.op = "idle" \/ pc.step > Len(LockProgram(pc.op)) THEN LockStep("none", "", 0)
        ELSE LockProgram(pc.op)[pc.step]

\* the threads that hold mutex m
\* a mutex that excludes nobody
LockHoldersNone(m) == {}

LockHolders(m) == {t \in Threads : \E i \in DOMAIN locks.held[t] : locks.held[t][i] = m}

LocksOthers == UNCHANGED <<indexVars, spVars, logVars, fetch, codec, flock, index_table>>

LocksInit ==
    /\ locks = [held |-> [t \in Threads |-> <<>>], pc |-> [t \in Threads |-> LockIdlePc],
                cached |-> FALSE, log_users |-> 0, byte0 |-> FALSE]
    /\ fetch = NoFetch /\ codec = NoCodec /\ flock = NoFlock /\ index_table = NoIndexTable
    /\ IndexStart /\ HashIdle /\ SpIdle /\ LogIdle

\* a thread enters a call
LockCall(t) ==
    /\ locks.pc[t] = LockIdlePc
    /\ \E op \in LockOps :
        /\ op = "_log_lock_file" => locks.log_users < MaxUsers
        /\ locks' = [locks EXCEPT !.pc[t] = [op |-> op, step |-> 1]]
    /\ LocksOthers

\* g_mutex_lock returns once no thread holds the mutex
LockAcquire(t) ==
    /\ LockAt(t).act = "lock"
    /\ LockHolders(LockAt(t).m) = {}
    /\ locks' = [locks EXCEPT !.held[t] = Append(@, LockAt(t).m), !.pc[t].step = @ + 1]
    /\ LocksOthers

LockRelease(t) ==
    /\ LockAt(t).act = "unlock"
    /\ locks' = [locks EXCEPT
                    !.held[t] = SelectSeq(@, LAMBDA m : m # LockAt(t).m),
                    !.pc[t].step = @ + 1]
    /\ LocksOthers

\* the steps between the mutex calls
LockLocal(t) ==
    LET at == LockAt(t)
        users == locks.log_users
    IN  /\ at.act \in {"if_cached", "insert", "if_users", "users_inc", "users_dec",
                       "fix_negative", "lockf", "unlockf"}
        /\ locks' = [locks EXCEPT
              !.pc[t].step = IF \/ at.act = "if_cached" /\ locks.cached
                                \/ at.act = "if_users" /\ users # 0
                             THEN at.to ELSE @ + 1,
              !.cached = IF at.act = "insert" THEN TRUE ELSE @,
              !.log_users = CASE at.act = "users_inc" -> users + 1
                              [] at.act = "users_dec" -> users - 1
                              [] at.act = "fix_negative" -> IF users < 0 THEN 0 ELSE users
                              [] OTHER -> users,
              !.byte0 = CASE at.act = "lockf" -> TRUE
                          [] at.act = "unlockf" -> FALSE
                          [] OTHER -> @]
        /\ LocksOthers

LockReturn(t) ==
    /\ locks.pc[t].op # "idle" /\ LockAt(t).act = "none"
    /\ locks' = [locks EXCEPT !.pc[t] = LockIdlePc]
    /\ LocksOthers

LocksNext ==
    \E t \in Threads :
        \/ LockCall(t)
        \/ LockAcquire(t)
        \/ LockRelease(t)
        \/ LockLocal(t)
        \/ LockReturn(t)

SpecLocks == LocksInit /\ [][LocksNext]_vars

\* C27: log_users counts the _log_lock_file calls of the process that no
\* _log_unlock_file has answered: with the log mutex free it is never negative
\* and byte 0 is locked exactly when it is positive; _log_lockf (and the redo)
\* run only on the step from 0 to 1, _log_unlockf only when the count is back
\* at 0, and an unlock at 0 leaves 0, whatever the threads' interleaving
C27_LogUsersCountsLocks ==
    /\ [](LockHolders("log") = {} =>
            locks.log_users >= 0 /\ (locks.byte0 <=> locks.log_users > 0))
    /\ [][\A t \in Threads :
            locks'.pc[t].step # locks.pc[t].step /\ locks.pc[t].op # "idle" =>
                /\ LockAt(t).act = "lockf" => locks.log_users = 0 /\ ~locks.byte0
                /\ LockAt(t).act = "users_inc" => locks.byte0 /\ locks.log_users >= 0
                /\ LockAt(t).act = "unlockf" => locks.log_users = 0
                /\ LockAt(t).act = "fix_negative" =>
                       locks'.log_users = (IF locks.log_users < 0 THEN 0 ELSE locks.log_users)
          ]_vars

\* a second _log_lock_file found the count at 1 and left the file lock alone,
\* and the count has come back from 2 to 1 with byte 0 still locked
C27_Witness ==
    /\ locks.log_users = 1 /\ locks.byte0
    /\ \E t \in Threads : locks.pc[t].op = "_log_unlock_file" /\ locks.pc[t].step = 6

\* C12: a thread holds its mutexes in the order writer, log, string table,
\* component: it requests none that comes earlier than one it holds
C12_LocksTakenInOrder ==
    \A t \in Threads :
        LockAt(t).act = "lock" =>
            \A i \in DOMAIN locks.held[t] :
                LockRank(locks.held[t][i]) <= LockRank(LockAt(t).m)



\* ---------------------------------------------------------------------------
\* s4_sourcepref_get_priority called by several threads (src/sourcepref.c)
\* ---------------------------------------------------------------------------

\* the preference lists and the source ids the threads use
ThreadPrefLists == {<<<<"1", "*">>, <<"?">>>>, <<<<"2">>>>}
ThreadSources == 1..3

\* what a dangling int pointer may read
PriorityValues == {0, 1, INT_MAX}

\* a thread in no call; i is the value pointer of the lookup, <<>> for NULL
SpThreadIdle == [pc |-> "idle", src |-> 0, i |-> <<>>, ret |-> 0]

\* a mutex that lets every thread in
SpMutexAlwaysFree(s) == TRUE

\* g_static_mutex_lock (&sp->lock) returns once no thread holds the mutex
SpMutexFree(s) == s.lock = {}

\* g_hash_table_insert on a table made with g_hash_table_new_full (..., free,
\* free): an entry of the same key is replaced and its key and value are freed.
\* An entry is <<key, value, allocation>>.
g_hash_table_insert(s, src, pri) ==
    LET old == {e \in s.table : e[1] = src}
    IN  [s EXCEPT !.table = (@ \ old) \cup {<<src, pri, s.nalloc + 1>>},
                  !.freed = @ \cup old,
                  !.nalloc = @ + 1]

SpThreadsInit ==
    /\ \E srcprefs \in ThreadPrefLists :
          sp = [specs |-> srcprefs, table |-> {}, lock |-> {}, freed |-> {}, nalloc |-> 0]
    /\ spcall = [t \in Threads |-> SpThreadIdle]
    /\ IndexStart /\ LogIdle /\ HashIdle /\ AuxIdle

SpThreadsOthers == UNCHANGED <<indexVars, logVars, auxVars>>

SpThreadCall(t) ==
    /\ spcall[t].pc = "idle"
    /\ \E src \in ThreadSources :
          spcall' = [spcall EXCEPT ![t] = [pc |-> "lock", src |-> src, i |-> <<>>, ret |-> 0]]
    /\ UNCHANGED sp
    /\ SpThreadsOthers

\* sourcepref.c:58
SpThreadLock(t) ==
    /\ spcall[t].pc = "lock"
    /\ SpMutexFree(sp)
    /\ sp' = [sp EXCEPT !.lock = @ \cup {t}]
    /\ spcall' = [spcall EXCEPT ![t].pc = "lookup"]
    /\ SpThreadsOthers

\* sourcepref.c:60-62
SpThreadLookup(t) ==
    /\ spcall[t].pc = "lookup"
    /\ spcall' = [spcall EXCEPT
          ![t].i = IF TableHas(sp.table, spcall[t].src)
                   THEN CHOOSE e \in sp.table : e[1] = spcall[t].src
                   ELSE <<>>,
          ![t].pc = IF TableHas(sp.table, spcall[t].src) THEN "unlock" ELSE "insert"]
    /\ UNCHANGED sp
    /\ SpThreadsOthers

\* sourcepref.c:63-73: the miss computes, inserts, unlocks and returns pri
SpThreadInsert(t) ==
    /\ spcall[t].pc = "insert"
    /\ LET pri == _get_priority(sp.specs, _st_reverse(spcall[t].src))
           s == g_hash_table_insert(sp, spcall[t].src, pri)
       IN  /\ sp' = [s EXCEPT !.lock = @ \ {t}]
           /\ spcall' = [spcall EXCEPT ![t].pc = "idle", ![t].ret = pri]
    /\ SpThreadsOthers

\* sourcepref.c:75
SpThreadUnlock(t) ==
    /\ spcall[t].pc = "unlock"
    /\ sp' = [sp EXCEPT !.lock = @ \ {t}]
    /\ spcall' = [spcall EXCEPT ![t].pc = "return"]
    /\ SpThreadsOthers

\* sourcepref.c:77: return *i, read with the mutex released; a freed value
\* reads as anything
SpThreadReturn(t) ==
    /\ spcall[t].pc = "return"
    /\ \E v \in PriorityValues \cup {spcall[t].i[2]} :
          /\ spcall[t].i \notin sp.freed => v = spcall[t].i[2]
          /\ spcall' = [spcall EXCEPT ![t].pc = "idle", ![t].ret = v]
    /\ UNCHANGED sp
    /\ SpThreadsOthers

SpThreadsNext ==
    \E t \in Threads :
        \/ SpThreadCall(t)
        \/ SpThreadLock(t)
        \/ SpThreadLookup(t)
        \/ SpThreadInsert(t)
        \/ SpThreadUnlock(t)
        \/ SpThreadReturn(t)

SpecSourceprefThreads == SpThreadsInit /\ [][SpThreadsNext]_vars

\* C26: whatever the interleaving of the threads' calls, each call returns the
\* priority the uncached computation gives for its source id, the table holds
\* at most one entry per source id, no entry is ever replaced or freed, and
\* the value a thread reads after the unlock is still an entry of the table
C26_ThreadedPriorityIsStable ==
    /\ [](/\ \A t \in Threads :
               /\ spcall[t].pc = "idle" /\ spcall[t].src # 0 =>
                     spcall[t].ret = _get_priority(sp.specs, _st_reverse(spcall[t].src))
               /\ spcall[t].pc = "return" => spcall[t].i \in sp.table
          /\ \A e1 \in sp.table : \A e2 \in sp.table : e1[1] = e2[1] => e1 = e2
          /\ sp.freed = {})
    /\ [][sp.table \subseteq sp'.table]_vars

\* thread 1 found the entry of source "2", released the mutex and is about to
\* read the value, while thread 2 holds the mutex to insert source "12"
C26_Witness ==
    /\ sp.specs = <<<<"1", "*">>, <<"?">>>>
    /\ spcall[1] = [pc |-> "return", src |-> 2, i |-> <<2, 1, 1>>, ret |-> 0]
    /\ spcall[2].pc = "insert" /\ spcall[2].src = 3
    /\ sp.lock = {2}

\* ---------------------------------------------------------------------------
\* The table of indexes by key: _index_get and _index_add (src/index.c)
\* ---------------------------------------------------------------------------

\* the keys the threads use; thread t hands its own index, t, to _index_add,
\* and 0 is NULL
IndexKeys == {<<97>>, <<98>>}

\* a thread in no call; had tells whether an _index_add of the key had
\* returned 1 when the call began
IndexThreadIdle == [pc |-> "idle", op |-> "none", key |-> <<>>, ret |-> 0, had |-> FALSE]

\* a lock that lets every thread in
IndexTableLockAlwaysFree(s) == TRUE

\* g_static_mutex_lock (&s4->index_table_lock) returns once no thread holds it
IndexTableLockFree(s) == s.lock = {}

\* g_hash_table_lookup (s4->index_table, key): NULL when the key has no entry
IndexTableLookup(table, key) ==
    IF \E e \in table : e[1] = key THEN (CHOOSE e \in table : e[1] = key)[2] ELSE 0

IndexTableInit ==
    /\ index_table = [table |-> {}, lock |-> {}, pc |-> [t \in Threads |-> IndexThreadIdle],
                      won |-> <<>>]
    /\ fetch = NoFetch /\ codec = NoCodec /\ locks = NoLocks /\ flock = NoFlock
    /\ IndexStart /\ HashIdle /\ SpIdle /\ LogIdle

IndexTableOthers == UNCHANGED <<indexVars, spVars, logVars, fetch, codec, locks, flock>>

IndexTableCall(t) ==
    /\ index_table.pc[t].pc = "idle"
    /\ \E op \in {"_index_add", "_index_get"} : \E key \in IndexKeys :
          index_table' = [index_table EXCEPT !.pc[t] =
              [pc |-> "lock", op |-> op, key |-> key, ret |-> 0,
               had |-> \E i \in DOMAIN index_table.won : index_table.won[i][1] = key]]
    /\ IndexTableOthers

\* index.c:26 and index.c:46
IndexTableLock(t) ==
    /\ index_table.pc[t].pc = "lock"
    /\ IndexTableLockFree(index_table)
    /\ index_table' = [index_table EXCEPT !.lock = @ \cup {t}, !.pc[t].pc = "lookup"]
    /\ IndexTableOthers

\* index.c:27, and the test of index.c:47
IndexTableLookupStep(t) ==
    LET c == index_table.pc[t]
        found == IndexTableLookup(index_table.table, c.key)
    IN  /\ c.pc = "lookup"
        /\ index_table' = [index_table EXCEPT
              !.pc[t].ret = IF c.op = "_index_get" THEN found ELSE 0,
              !.pc[t].pc = IF c.op = "_index_add" /\ found = 0 THEN "insert" ELSE "unlock"]
        /\ IndexTableOthers

\* index.c:48-49: g_hash_table_insert puts the index in the place of the key's entry
IndexTableInsert(t) ==
    LET c == index_table.pc[t]
    IN  /\ c.pc = "insert"
        /\ index_table' = [index_table EXCEPT
              !.table = {e \in @ : e[1] # c.key} \cup {<<c.key, t>>},
              !.pc[t].ret = 1,
              !.pc[t].pc = "unlock"]
        /\ IndexTableOthers

\* index.c:28-30 and index.c:51-53: unlock and return; won lists the keys and
\* indexes of the _index_add calls that returned 1
IndexTableUnlock(t) ==
    LET c == index_table.pc[t]
    IN  /\ c.pc = "unlock"
        /\ index_table' = [index_table EXCEPT
              !.lock = @ \ {t},
              !.won = IF c.op = "_index_add" /\ c.ret = 1 THEN Append(@, <<c.key, t>>) ELSE @,
              !.pc[t].pc = "idle"]
        /\ IndexTableOthers

IndexTableNext ==
    \E t \in Threads :
        \/ IndexTableCall(t)
        \/ IndexTableLock(t)
        \/ IndexTableLookupStep(t)
        \/ IndexTableInsert(t)
        \/ IndexTableUnlock(t)

SpecIndexTable == IndexTableInit /\ [][IndexTableNext]_vars

\* the keys and indexes of the _index_add calls that have returned 1
IndexWon == {index_table.won[i] : i \in DOMAIN index_table.won}

\* C31: whatever the interleaving of the threads, _index_add returns 1 exactly
\* when it registered its index, which it does only for a key that has none;
\* of all the _index_add calls of a key exactly one returns 1, its index stays
\* registered, and an _index_get that begins after that call has returned
\* gives that index
C31_OneIndexPerKey ==
    /\ [](/\ \A i \in DOMAIN index_table.won : \A j \in DOMAIN index_table.won :
                index_table.won[i][1] = index_table.won[j][1] => i = j
          /\ IndexWon \subseteq index_table.table
          /\ \A e1 \in index_table.table : \A e2 \in index_table.table :
                e1[1] = e2[1] => e1 = e2
          /\ \A t \in Threads :
                LET c == index_table.pc[t]
                IN  /\ c.pc = "idle" /\ c.op = "_index_add" =>
                          /\ \E e \in IndexWon : e[1] = c.key
                          /\ c.ret = 1 => <<c.key, t>> \in IndexWon
                          /\ c.ret = 0 => c.had \/ \E e \in IndexWon : e[1] = c.key /\ e[2] # t
                          /\ c.ret \in {0, 1}
                    /\ c.pc = "idle" /\ c.op = "_index_get" /\ c.had =>
                          <<c.key, c.ret>> \in IndexWon
                    /\ c.pc = "idle" /\ c.op = "_index_get" /\ c.ret # 0 =>
                          <<c.key, c.ret>> \in index_table.table)
    /\ [][index_table.table \subseteq index_table'.table]_vars

\* both threads have called _index_add with the key "a" at the same time:
\* thread 2 registered its index and thread 1 returned 0
C31_Witness ==
    /\ index_table.won = << <<<<97>>, 2>> >>
    /\ index_table.pc[1] = [pc |-> "idle", op |-> "_index_add", key |-> <<97>>,
                            ret |-> 0, had |-> FALSE]
    /\ index_table.pc[2].pc = "idle" /\ index_table.pc[2].op = "_index_add"
    /\ index_table.pc[2].key = <<97>> /\ index_table.pc[2].ret = 1

\* ---------------------------------------------------------------------------
\* The lock on byte 0 of the log file, between processes (src/lib/log.c)
\* ---------------------------------------------------------------------------

\* the processes that have the same log file open
Procs == 1..3

\* _log_lockf (s4, 0) returns: LockFile takes the byte once no process holds
\* it; fcntl with l_type F_UNLCK returns at once and takes nothing
_log_lockf(f, p) ==
    [f EXCEPT !.held = IF f.win32 THEN @ \cup {p} ELSE @]

\* _log_unlockf (s4, 0)
_log_unlockf(f, p) == [f EXCEPT !.held = @ \ {p}]

FlockOthers == UNCHANGED <<indexVars, spVars, logVars, fetch, codec, locks, index_table>>

FlockInit ==
    /\ \E w \in BOOLEAN :
        flock = [win32 |-> w, held |-> {}, log_users |-> [p \in Procs |-> 0],
                 pc |-> [p \in Procs |-> "idle"]]
    /\ fetch = NoFetch /\ codec = NoCodec /\ locks = NoLocks /\ index_table = NoIndexTable
    /\ IndexStart /\ HashIdle /\ SpIdle /\ LogIdle

\* _log_lock_file up to the call of _log_lockf, or to its end when the
\* process has the file locked already
FlockLockFile(p) ==
    /\ flock.pc[p] = "idle" /\ flock.log_users[p] < MaxUsers
    /\ flock' = IF flock.log_users[p] = 0 THEN [flock EXCEPT !.pc[p] = "lockf"]
                ELSE [flock EXCEPT !.log_users[p] = @ + 1]
    /\ FlockOthers

\* _log_lockf returns and _log_redo starts
FlockLockf(p) ==
    /\ flock.pc[p] = "lockf"
    /\ flock.win32 => flock.held = {}
    /\ flock' = [_log_lockf(flock, p) EXCEPT !.pc[p] = "redo"]
    /\ FlockOthers

\* _log_redo returns and _log_lock_file ends
FlockRedo(p) ==
    /\ flock.pc[p] = "redo"
    /\ flock' = [flock EXCEPT !.pc[p] = "idle", !.log_users[p] = @ + 1]
    /\ FlockOthers

\* _log_write starts to append records; its callers hold the file lock
FlockWrite(p) ==
    /\ flock.pc[p] = "idle" /\ flock.log_users[p] > 0
    /\ flock' = [flock EXCEPT !.pc[p] = "write"]
    /\ FlockOthers

\* _log_write returns
FlockWritten(p) ==
    /\ flock.pc[p] = "write"
    /\ flock' = [flock EXCEPT !.pc[p] = "idle"]
    /\ FlockOthers

\* _log_unlock_file; UnlockFile of a byte the process does not hold fails,
\* and the loop around it never ends
FlockUnlockFile(p) ==
    LET users == IF flock.log_users[p] - 1 < 0 THEN 0 ELSE flock.log_users[p] - 1
        f == [flock EXCEPT !.log_users[p] = users]
    IN  /\ flock.pc[p] = "idle"
        /\ flock' = IF users # 0 THEN f
                    ELSE IF flock.win32 /\ p \notin flock.held THEN [f EXCEPT !.pc[p] = "spin"]
                    ELSE _log_unlockf(f, p)
        /\ FlockOthers

FlockNext ==
    \E p \in Procs :
        \/ FlockLockFile(p)
        \/ FlockLockf(p)
        \/ FlockRedo(p)
        \/ FlockWrite(p)
        \/ FlockWritten(p)
        \/ FlockUnlockFile(p)

SpecFlock == FlockInit /\ [][FlockNext]_vars

\* process p is between its _log_lock_file and its _log_unlock_file
InLogFile(p) == flock.log_users[p] > 0 \/ flock.pc[p] = "redo"

\* C11: the lock on byte 0 keeps the processes apart: no two are between
\* _log_lock_file and _log_unlock_file at once, so none writes records while
\* another redoes the log
C11_ByteLockExcludes ==
    \A p, q \in Procs :
        p # q =>
            /\ ~(InLogFile(p) /\ InLogFile(q))
            /\ ~(flock.pc[p] = "write" /\ flock.pc[q] = "redo")


====
